---- MODULE Spec2Model ----
(***************************************************************************)
(* Bartimaeus Idle RPG: the simulation core (Hero, Enemy, BattleManager,   *)
(* ResourceManager, Game.upgradeHero, storage snapshot) as a state machine.*)
(*                                                                         *)
(* Units.  Hero/Enemy health is kept in HALF hit points (defense * 0.5 is  *)
(* the only source of fractions), so health = 2 * (JavaScript health).     *)
(* Gold is kept in QUARTER gold pieces: goldPerSecond is stage * 0.5 and   *)
(* the modelled deltaTime values are multiples of 500 ms, so every amount  *)
(* the ledger holds is a whole number of quarters and is exact in binary64.*)
(* Where the source rounds (deltaTime / 1000, 0.15, 0.9 ...) the model     *)
(* computes with IEEE-754 binary64 values (F64* operators below).          *)
(***************************************************************************)
EXTENDS Integers, Sequences, FiniteSets, TLC

Max(a, b) == IF a >= b THEN a ELSE b
Min(a, b) == IF a <= b THEN a ELSE b
Pow2(k) == 2 ^ k

(***************************************************************************)
(* JavaScript Number arithmetic (IEEE-754 binary64, round to nearest even).*)
(* A non-negative double is [m |-> mantissa, e |-> exponent], value        *)
(* m * 2^e, the mantissa a natural number of at most 53 bits held as a     *)
(* little-endian sequence of 16-bit limbs.                                 *)
(***************************************************************************)
LimbBits == 16
Base == Pow2(LimbBits)
MantissaBits == 53

RECURSIVE NatLimbs(_)
NatLimbs(n) == IF n = 0 THEN <<>> ELSE <<n % Base>> \o NatLimbs(n \div Base)

RECURSIVE Trim(_)
Trim(L) == IF L = <<>> \/ L[Len(L)] # 0 THEN L ELSE Trim(SubSeq(L, 1, Len(L) - 1))

RECURSIVE MulLimbs(_, _, _)
MulLimbs(L, n, c) ==
    IF L = <<>> THEN NatLimbs(c)
    ELSE <<(L[1] * n + c) % Base>> \o MulLimbs(Tail(L), n, (L[1] * n + c) \div Base)

RECURSIVE AddLimbs(_, _, _)
AddLimbs(A, B, c) ==
    IF A = <<>> /\ B = <<>> THEN NatLimbs(c)
    ELSE LET x == IF A = <<>> THEN 0 ELSE A[1]
             y == IF B = <<>> THEN 0 ELSE B[1]
         IN <<(x + y + c) % Base>>
            \o AddLimbs(IF A = <<>> THEN A ELSE Tail(A),
                        IF B = <<>> THEN B ELSE Tail(B), (x + y + c) \div Base)

Limb(L, j) == IF j >= 1 /\ j <= Len(L) THEN L[j] ELSE 0
Bit(L, i) == (Limb(L, i \div LimbBits + 1) \div Pow2(i % LimbBits)) % 2
BitLen(L) ==
    IF L = <<>> THEN 0
    ELSE LimbBits * (Len(L) - 1)
         + (CHOOSE k \in 1..LimbBits : Pow2(k - 1) <= L[Len(L)] /\ L[Len(L)] < Pow2(k))

ShiftRight(L, d) ==
    LET q == d \div LimbBits
        s == d % LimbBits
    IN Trim([j \in 1..Max(Len(L) - q, 0) |->
               (Limb(L, j + q) \div Pow2(s))
               + (Limb(L, j + q + 1) % Pow2(s)) * Pow2(LimbBits - s)])

ShiftLeft(L, d) ==
    LET q == d \div LimbBits
        s == d % LimbBits
    IN Trim([j \in 1..(Len(L) + q + 1) |->
               IF j <= q THEN 0
               ELSE (Limb(L, j - q) % Pow2(LimbBits - s)) * Pow2(s)
                    + (Limb(L, j - q - 1) \div Pow2(LimbBits - s))])

\* Round an exact value L * 2^e to the nearest double, ties to even.
F64Round(L, e) ==
    LET d == BitLen(L) - MantissaBits
    IN IF d <= 0 THEN [m |-> L, e |-> e]
       ELSE LET kept == ShiftRight(L, d)
                sticky == \E i \in 0..(d - 2) : Bit(L, i) = 1
                up == Bit(L, d - 1) = 1 /\ (sticky \/ Bit(kept, 0) = 1)
            IN [m |-> IF up THEN AddLimbs(kept, <<1>>, 0) ELSE kept, e |-> e + d]

\* c / d for naturals c, d (d < 2^15): 64 fraction bits and a sticky limb.
F64Div(c, d) ==
    LET t1 == (c % d) * Base
        t2 == (t1 % d) * Base
        t3 == (t2 % d) * Base
        t4 == (t3 % d) * Base
        frac == <<IF t4 % d # 0 THEN 1 ELSE 0, t4 \div d, t3 \div d, t2 \div d, t1 \div d>>
    IN F64Round(Trim(frac \o NatLimbs(c \div d)), -(5 * LimbBits))

\* x * n for a double x and a natural n < 2^14.
F64Mul(x, n) == F64Round(Trim(MulLimbs(x.m, n, 0)), x.e)

\* x + y for doubles x, y.
F64Add(x, y) ==
    LET e == Min(x.e, y.e)
    IN F64Round(Trim(AddLimbs(ShiftLeft(x.m, x.e - e), ShiftLeft(y.m, y.e - e), 0)), e)

\* x * 2^(-k): exact.
F64Half(x, k) == [m |-> x.m, e |-> x.e - k]

F64Nat(n) == [m |-> NatLimbs(n), e |-> 0]

\* Math.floor(x) for a double x below 2^31.
F64Floor(x) ==
    LET L == IF x.e >= 0 THEN ShiftLeft(x.m, x.e) ELSE ShiftRight(x.m, -x.e)
    IN Limb(L, 1) + Base * Limb(L, 2)

\* A * B for limb sequences: each limb of B is applied as two bytes.
RECURSIVE MulBig(_, _)
MulBig(A, B) ==
    IF B = <<>> THEN <<>>
    ELSE Trim(AddLimbs(AddLimbs(MulLimbs(A, B[1] % 256, 0),
                                ShiftLeft(MulLimbs(A, B[1] \div 256, 0), 8), 0),
                       <<0>> \o MulBig(A, Tail(B)), 0))

\* <<A^0, A^1, ..., A^n>> for a limb sequence A.
PowersStep(prev, A) == Append(prev, MulBig(prev[Len(prev)], A))
RECURSIVE Powers(_, _)
Powers(A, n) == IF n = 0 THEN <<<<1>>>> ELSE PowersStep(Powers(A, n - 1), A)

\* Math.pow(x, k) for a double x and a natural k, L being the exact power of x's
\* mantissa: 1 for k = 0, x for k = 1, and beyond that the double nearest to x^k.
RoundedPower(L, x, k) ==
    IF k = 0 THEN F64Nat(1)
    ELSE IF k = 1 THEN x
    ELSE F64Round(L, k * x.e)

\* The doubles an implementation of Math.pow may return: for k >= 2 those within 0.7 ulp
\* of the exact power (the error bound of fdlibm's pow).  The discarded part of the
\* mantissa is read to 12 bits, so a double at 0.7 ulp give or take 2^-12 is included.
PowerResultsFrom(kept, t, e) ==
    (IF t < 2868 THEN {F64Round(kept, e)} ELSE {})
       \cup (IF t >= 1228 THEN {F64Round(AddLimbs(kept, <<1>>, 0), e)} ELSE {})
PowerResults(L, x, k) ==
    IF k <= 1 THEN {RoundedPower(L, x, k)}
    ELSE PowerResultsFrom(ShiftRight(L, BitLen(L) - MantissaBits),
                          Limb(ShiftRight(L, BitLen(L) - MantissaBits - 12), 1) % 4096,
                          k * x.e + BitLen(L) - MantissaBits)

MathPow(x, k) == RoundedPower(Powers(x.m, k)[k + 1], x, k)

(***************************************************************************)
(* Program constants.                                                      *)
(***************************************************************************)
StartingGold == 1000
AttackInterval == 1000
MaxLifetime == 1000
MaxOfflineTime == 2 * 60 * 60 * 1000
EnemyBaseHealth == 200
EnemyBaseAttack == 25
EnemyBaseDefense == 10

\* Quarter gold pieces per gold piece, half hit points per hit point.
Gold(g) == 4 * g
HP(h) == 2 * h

(***************************************************************************)
(* Bounds of the model.                                                    *)
(***************************************************************************)
MaxRaw == 24          \* largest raw damage handed to takeDamage in the unit harness
MaxCalls == 2         \* calculateOfflineEarnings calls kept in the call log
MaxLevel == 2         \* hero level cap
MaxWave == 3          \* update is not taken once currentWave reaches this
ElapsedCap == 1001    \* the per-entry wall-time ghost saturates here
MaxAccrued == 4       \* gold (quarters) update and addGold may add in one run
MaxBattles == 2       \* startBattle calls in one run
MaxStageChecked == 30 \* stages the maxEnemies formula is evaluated on
MaxGameBattles == 3   \* startBattle calls (init and advanceStage) in one run of a Game
MaxTime == 190000     \* Game ticks stop once the clock would pass this
MaxBaseChecked == 30  \* base stats 0..MaxBaseChecked have their scaled stats compared
MaxLevelChecked == 12 \* levels 1..MaxLevelChecked are compared with the level above
MaxStageFought == 2   \* SpecSpawn follows the ticks of battles up to this stage
MaxStageSpawned == 20 \* stages the stats of a spawned enemy are computed for
MaxAccrualTime == 4000 \* SpecAccrual: the frames of one run add up to at most this (ms)

VARIABLES
    hero,                       \* Hero: level, base stats, maxHealth, health (half HP), attack, defense
    enemies,                    \* BattleManager.enemies: sequence of Enemy records
    currentStage,               \* BattleManager.currentStage
    currentWave,                \* BattleManager.currentWave
    enemiesDefeatedThisStage,   \* BattleManager.enemiesDefeatedThisStage
    maxEnemies,                 \* BattleManager.maxEnemies
    isBattleActive,             \* BattleManager.isBattleActive
    isPaused,                   \* BattleManager.isPaused
    timeSinceLastAttack,        \* BattleManager.timeSinceLastAttack (ms)
    damageNumbers,              \* BattleManager.damageNumbers: the effect feed
    speedMultiplier,            \* Game.speedMultiplier (window.game.speedMultiplier)
    gold,                       \* ResourceManager.gold (quarter gold; in SpecAccrual the double itself)
    goldPerSecond,              \* ResourceManager.goldPerSecond (half gold per second)
    gameStage,                  \* Game.currentStage
    storage,                    \* localStorage[SAVE_KEY]: the last snapshot, or NoSave
    offlineCalls,               \* calculateOfflineEarnings calls: <<arguments, result>>
    accrued,                    \* history: gold added by update and addGold so far (quarters)
    battles,                    \* history: number of startBattle calls so far
    elapsed,                    \* history: per feed entry, the deltaTime passed to update since it was created
    fireballCooldown,           \* SKILLS.FIREBALL.currentCooldown (ms)
    cleaveCooldown,             \* SKILLS.CLEAVE.currentCooldown (ms)
    pendingEffects,             \* setTimeout callbacks of Cleave not run yet, in firing order
    sinceUse,                   \* history: deltaTime of the updates that ran since Fireball was last used
    now,                        \* Date.now() (ms)
    lastSaveTime,               \* Game.lastSaveTime (ms)
    rewardedUntil,              \* history: end of the last interval whose offline reward is in gold, or 0
    savedUntil,                 \* history: rewardedUntil of the Game that wrote the stored snapshot
    adventureLog,               \* BattleManager.adventureLog is set (TRUE) or null (FALSE)
    randomStream,               \* history: the Math.random() results the last update consumed, in order
    roundLog,                   \* history: damage events of the last operation
    call                        \* history: last operation, its argument and its return value

battleVars == <<enemies, currentStage, currentWave, enemiesDefeatedThisStage, maxEnemies,
                isBattleActive, isPaused, timeSinceLastAttack, damageNumbers, speedMultiplier>>
ledgerVars == <<gold, goldPerSecond, gameStage, storage, accrued>>
skillVars == <<fireballCooldown, cleaveCooldown, pendingEffects, sinceUse>>
clockVars == <<now, lastSaveTime, rewardedUntil, savedUntil>>
randomVars == <<adventureLog, randomStream>>
vars == <<hero, battleVars, ledgerVars, skillVars, clockVars, randomVars, offlineCalls,
          battles, elapsed, roundLog, call>>

NoSave == [version |-> "none"]
Call(op, who, arg, ret) == [op |-> op, who |-> who, arg |-> arg, ret |-> ret]

(***************************************************************************)
(* Hero (hero.js).                                                         *)
(***************************************************************************)
\* A property that is missing reads as undefined, and arithmetic on undefined gives NaN;
\* both are kept apart from every number the game computes.
Undefined == -1
NaN == -2

\* Math.floor(base * (1 + (level - 1) * pct/100)) with pct/100 the literal 0.15, 0.10, 0.08
ScaledStat(base, level, pct) ==
    IF level = Undefined THEN NaN
    ELSE F64Floor(F64Mul(F64Add(F64Mul(F64Div(pct, 100), level - 1), F64Nat(1)), base))

\* ScaledStat computed ahead for the base stats and levels of the heroes modelled.
CheckedBases == (0..MaxBaseChecked) \cup {60, 100, 250, 500}
StatTable ==
    [base \in CheckedBases, level \in 1..(MaxLevelChecked + 1), pct \in {8, 10, 15} |->
       ScaledStat(base, level, pct)]
StatFalling(base, level, pct) ==
    IF level = Undefined THEN NaN ELSE StatTable[base, MaxLevelChecked + 2 - level, pct]
Stat(base, level, pct) ==
    IF level = Undefined THEN NaN ELSE StatTable[base, level, pct]

calculateMaxHealth(h) == Stat(h.baseHealth, h.level, 15)
calculateAttack(h) == Stat(h.baseAttack, h.level, 10)
calculateDefense(h) == Stat(h.baseDefense, h.level, 8)

Recalculated(h) ==
    [h EXCEPT !.maxHealth = calculateMaxHealth(h),
              !.attack = calculateAttack(h),
              !.defense = calculateDefense(h)]

NewHero(baseHealth, baseAttack, baseDefense) ==
    LET h == Recalculated([level |-> 1, baseHealth |-> baseHealth, baseAttack |-> baseAttack,
                           baseDefense |-> baseDefense, maxHealth |-> 0, health |-> 0,
                           attack |-> 0, defense |-> 0, unlockedSkills |-> <<"fireball">>])
    IN [h EXCEPT !.health = HP(h.maxHealth)]

createStartingHeroesLevel2 == Recalculated([NewHero(500, 30, 25) EXCEPT !.level = 2])
createStartingHeroes == NewHero(500, 30, 25)

\* Hero.fromJSON: the constructor, then the saved level and full health.
HeroFromJSON(baseHealth, baseAttack, baseDefense, level) ==
    LET h == Recalculated([NewHero(baseHealth, baseAttack, baseDefense) EXCEPT !.level = level])
    IN [h EXCEPT !.health = HP(h.maxHealth)]

\* Hero.fromJSON(data): hero.level = data.level has no default, unlockedSkills has one.
fromJSON(data) ==
    LET h == Recalculated([NewHero(data.baseHealth, data.baseAttack, data.baseDefense)
                             EXCEPT !.level = IF "level" \in DOMAIN data THEN data.level
                                              ELSE Undefined])
    IN [h EXCEPT !.health = IF h.maxHealth = NaN THEN NaN ELSE HP(h.maxHealth),
                 !.unlockedSkills = IF "unlockedSkills" \in DOMAIN data
                                    THEN data.unlockedSkills ELSE <<"fireball">>]

isAlive(c) == c.health > 0

\* takeDamage on a Hero or an Enemy c: the combatant afterwards and the value returned,
\* both in half points.  reduction = defense * 0.5, so actualDamage = max(1, damage -
\* reduction) is max(2, 2 * damage - defense) half points; Math.floor(actualDamage) is
\* returned.
takeDamageNoMin(c, damage) ==
    LET actual == 2 * damage - c.defense
        h == c.health - actual
    IN [target |-> [c EXCEPT !.health = IF h < 0 THEN 0 ELSE h],
        ret |-> HP(actual \div 2)]

takeDamageNoClamp(c, damage) ==
    LET actual == Max(HP(1), 2 * damage - c.defense)
    IN [target |-> [c EXCEPT !.health = c.health - actual],
        ret |-> HP(actual \div 2)]

takeDamage(c, damage) ==
    LET actual == Max(HP(1), 2 * damage - c.defense)
        h == c.health - actual
    IN [target |-> [c EXCEPT !.health = IF h < 0 THEN 0 ELSE h],
        ret |-> HP(actual \div 2)]

heal(h) == [h EXCEPT !.health = HP(h.maxHealth)]

upgrade(h) ==
    LET n == Recalculated([h EXCEPT !.level = h.level + 1])
    IN [n EXCEPT !.health = h.health + HP(n.maxHealth - h.maxHealth)]

\* floor(sqrt(n)): Math.pow(level, 1.5) * 100 floored is floor(sqrt(10000 * level^3)).
ISqrt(n) == CHOOSE r \in 0..n : r * r <= n /\ (r + 1) * (r + 1) > n

UpgradeCostTable == [level \in 1..6 |-> ISqrt(10000 * level * level * level)]
getUpgradeCost(h) ==
    IF h.level \in DOMAIN UpgradeCostTable THEN UpgradeCostTable[h.level]
    ELSE ISqrt(10000 * h.level * h.level * h.level)

(***************************************************************************)
(* Enemy (enemy.js) and enemy creation (battle.js createEnemyForStage).    *)
(***************************************************************************)
NewEnemy(id, type, health, attack, defense) ==
    [id |-> id, type |-> type, maxHealth |-> health, health |-> HP(health),
     attack |-> attack, defense |-> defense]

\* floor(L / d) for a limb sequence L and a natural d < 2^15.
RECURSIVE DivLimbs(_, _)
DivLimbs(L, d) ==
    IF L = <<>> THEN [q |-> <<>>, r |-> 0]
    ELSE LET hi == DivLimbs(Tail(L), d)
         IN [q |-> <<(hi.r * Base + L[1]) \div d>> \o hi.q, r |-> (hi.r * Base + L[1]) % d]

RECURSIVE MulPow(_, _, _)
MulPow(L, n, k) == IF k = 0 THEN L ELSE MulPow(MulLimbs(L, n, 0), n, k - 1)

RECURSIVE DivPow(_, _, _)
DivPow(L, d, k) == IF k = 0 THEN L ELSE DivPow(DivLimbs(L, d).q, d, k - 1)

\* The exact powers of the mantissas of the literals 1.20, 1.15 and 1.10.
StagePowers ==
    [pct \in {120, 115, 110} |-> Powers(F64Div(pct, 100).m, MaxStageSpawned - 1)]

\* Math.floor(base * Math.pow(pct / 100, stageLevel - 1)) for every result Math.pow may
\* return.
StageStatResults(base, pct, stageLevel) ==
    {F64Floor(F64Mul(p, base)) :
        p \in PowerResults(StagePowers[pct][stageLevel], F64Div(pct, 100), stageLevel - 1)}

\* Math.floor(base * Math.pow(pct / 100, stageLevel - 1)), computed ahead for the three
\* stats of createEnemyForStage with Math.pow rounded to nearest.
StageStatTable ==
    [bp \in {<<EnemyBaseHealth, 120>>, <<EnemyBaseAttack, 115>>, <<EnemyBaseDefense, 110>>},
     stageLevel \in 1..MaxStageSpawned |->
       F64Floor(F64Mul(RoundedPower(StagePowers[bp[2]][stageLevel], F64Div(bp[2], 100),
                                    stageLevel - 1), bp[1]))]
StageStat(base, pct, stageLevel) == StageStatTable[<<base, pct>>, stageLevel]

EnemyTypeExclusive(stageLevel) ==
    IF stageLevel < 2 THEN "Goblin"
    ELSE IF stageLevel < 5 THEN "Orc"
    ELSE IF stageLevel < 8 THEN "Skeleton"
    ELSE IF stageLevel < 12 THEN "Demon"
    ELSE "Dragon"

EnemyType(stageLevel) ==
    IF stageLevel <= 2 THEN "Goblin"
    ELSE IF stageLevel <= 5 THEN "Orc"
    ELSE IF stageLevel <= 8 THEN "Skeleton"
    ELSE IF stageLevel <= 12 THEN "Demon"
    ELSE "Dragon"

createEnemyForStage(es, stageLevel) ==
    NewEnemy(Len(es), EnemyType(stageLevel),
             StageStat(EnemyBaseHealth, 120, stageLevel),
             StageStat(EnemyBaseAttack, 115, stageLevel),
             StageStat(EnemyBaseDefense, 110, stageLevel))

(***************************************************************************)
(* ResourceManager (resources.js).                                         *)
(***************************************************************************)
\* goldPerSecond = stageLevel * 0.5, kept in half gold per second.
updateIdleRates(stageLevel) == stageLevel

\* goldPerSecond * (deltaTime / 1000) in quarter gold: (gps/2) * (dt/1000) * 4.
\* deltaTime is a multiple of 500 ms, so the quotient and the sum are exact.
IdleGold(gps, deltaTime) == (gps * deltaTime) \div 500

\* addGold: this.gold += Math.floor(amount)
addGold(g, amount) == g + Gold(amount \div Gold(1))

\* spendGold: the balance afterwards and the value returned.
spendGoldFloored(g, amount) ==
    LET ok == Gold(g \div Gold(1)) >= amount
    IN [gold |-> IF ok THEN g - amount ELSE g, ok |-> ok]

spendGoldFree(g, amount) == [gold |-> g, ok |-> TRUE]

spendGold(g, amount) ==
    LET ok == g >= amount
    IN [gold |-> IF ok THEN g - amount ELSE g, ok |-> ok]

calculateOfflineEarningsNoCap(timeAwayMs, stage) ==
    [gold |-> F64Floor(F64Mul(F64Div(Min(timeAwayMs, 8000000), 1000), stage * 10)),
     timeAwayMs |-> timeAwayMs, stage |-> stage]

\* cappedTime = min(timeAwayMs, 2h); timeAwaySeconds = cappedTime / 1000;
\* goldEarned = Math.floor((currentStage * 10) * timeAwaySeconds)
calculateOfflineEarnings(timeAwayMs, stage) ==
    [gold |-> F64Floor(F64Mul(F64Div(Min(timeAwayMs, MaxOfflineTime), 1000), stage * 10)),
     timeAwayMs |-> timeAwayMs, stage |-> stage]

(***************************************************************************)
(* Constructor states.                                                     *)
(***************************************************************************)
BattleNew ==
    /\ enemies = <<>>
    /\ currentStage = 1
    /\ currentWave = 1
    /\ enemiesDefeatedThisStage = 0
    /\ maxEnemies = 3
    /\ isBattleActive = FALSE
    /\ isPaused = FALSE
    /\ timeSinceLastAttack = 0
    /\ damageNumbers = <<>>
    /\ speedMultiplier = 1

LedgerNew ==
    /\ gold = Gold(StartingGold)
    /\ goldPerSecond = 0
    /\ gameStage = 1
    /\ storage = NoSave
    /\ accrued = 0

\* SKILLS.FIREBALL and SKILLS.CLEAVE: baseCooldown
FireballCooldown == 5000
CleaveCooldown == 8000

\* new Skill(...): this.currentCooldown = 0; no timer is pending.
SkillsNew ==
    /\ fireballCooldown = 0
    /\ cleaveCooldown = 0
    /\ pendingEffects = <<>>
    /\ sinceUse = FireballCooldown

\* The clock at page load, and Game.lastSaveTime = Date.now() of the constructor.
Epoch == 100000
ClockNew ==
    /\ now = Epoch
    /\ lastSaveTime = now
    /\ rewardedUntil = 0
    /\ savedUntil = 0

\* BattleManager constructor: this.adventureLog = null; nothing drawn yet.
RandomNew ==
    /\ adventureLog = FALSE
    /\ randomStream = <<>>

HistoryNew ==
    /\ offlineCalls = <<>>
    /\ battles = 0
    /\ elapsed = <<>>
    /\ roundLog = <<>>
    /\ call = Call("new", "none", 0, 0)

(***************************************************************************)
(* SpecOffline: ResourceManager.calculateOfflineEarnings called with        *)
(* arbitrary arguments; the last MaxCalls calls are kept.                   *)
(***************************************************************************)
OfflineTimes == {0, 999, 4100, 64100, 90000, 7199999, 7200000, 7200001, 999999999}
OfflineStages == {1, 3, 5}

LastCalls(log) == IF Len(log) > MaxCalls THEN Tail(log) ELSE log

CalculateOfflineEarnings(timeAwayMs, stage) ==
    /\ offlineCalls' = LastCalls(Append(offlineCalls, calculateOfflineEarnings(timeAwayMs, stage)))
    /\ call' = Call("calculateOfflineEarnings", "resources", timeAwayMs,
                    calculateOfflineEarnings(timeAwayMs, stage).gold)
    /\ UNCHANGED <<skillVars, clockVars, randomVars,
                   hero, battleVars, ledgerVars, battles, elapsed, roundLog>>

InitOffline ==
    /\ hero = createStartingHeroes
    /\ BattleNew
    /\ LedgerNew
    /\ SkillsNew
    /\ ClockNew
    /\ RandomNew
    /\ HistoryNew

NextOffline == \E t \in OfflineTimes, s \in OfflineStages : CalculateOfflineEarnings(t, s)

SpecOffline == InitOffline /\ [][NextOffline]_vars

(***************************************************************************)
(* SpecCombatant: one Hero or one Enemy built by its constructor and hit    *)
(* with arbitrary raw damage (the damage consistency test).                 *)
(***************************************************************************)
TestHealths == {20, 100}
TestDefenses == {0, 10, 25, 60}
RawDamages == 0..MaxRaw

HeroTakeDamage(damage) ==
    /\ call.who = "hero"
    /\ hero' = takeDamage(hero, damage).target
    /\ call' = Call("takeDamage", "hero", damage, takeDamage(hero, damage).ret)
    /\ UNCHANGED <<skillVars, clockVars, randomVars,
                   battleVars, ledgerVars, offlineCalls, battles, elapsed, roundLog>>

EnemyTakeDamage(damage) ==
    /\ call.who = "enemy"
    /\ enemies' = <<takeDamage(enemies[1], damage).target>>
    /\ call' = Call("takeDamage", "enemy", damage, takeDamage(enemies[1], damage).ret)
    /\ UNCHANGED <<skillVars, clockVars, randomVars,
                   hero, currentStage, currentWave, enemiesDefeatedThisStage, maxEnemies,
                   isBattleActive, isPaused, timeSinceLastAttack, damageNumbers,
                   speedMultiplier, ledgerVars, offlineCalls, battles, elapsed, roundLog>>

HeroHeal ==
    /\ call.who = "hero"
    /\ hero' = heal(hero)
    /\ call' = Call("heal", "hero", 0, 0)
    /\ UNCHANGED <<skillVars, clockVars, randomVars,
                   battleVars, ledgerVars, offlineCalls, battles, elapsed, roundLog>>

InitCombatant ==
    /\ LedgerNew
    /\ SkillsNew
    /\ ClockNew
    /\ RandomNew
    /\ offlineCalls = <<>>
    /\ battles = 0
    /\ elapsed = <<>>
    /\ roundLog = <<>>
    /\ currentStage = 1
    /\ currentWave = 1
    /\ enemiesDefeatedThisStage = 0
    /\ maxEnemies = 3
    /\ isBattleActive = FALSE
    /\ isPaused = FALSE
    /\ timeSinceLastAttack = 0
    /\ damageNumbers = <<>>
    /\ speedMultiplier = 1
    /\ \E h \in TestHealths, d \in TestDefenses :
         \/ /\ hero = NewHero(h, 10, d)
            /\ enemies = <<>>
            /\ call = Call("new", "hero", 0, 0)
         \/ /\ hero = createStartingHeroes
            /\ enemies = <<NewEnemy(0, "TestEnemy", h, 10, d)>>
            /\ call = Call("new", "enemy", 0, 0)

NextCombatant ==
    \/ \E d \in RawDamages : HeroTakeDamage(d)
    \/ \E d \in RawDamages : EnemyTakeDamage(d)
    \/ HeroHeal

SpecCombatant == InitCombatant /\ [][NextCombatant]_vars

(***************************************************************************)
(* BattleManager (battle.js).                                              *)
(***************************************************************************)
\* Math.random() results used by the model, as dyadic fractions num / 2^shift.
Random(num, shift) == [num |-> num, shift |-> shift]
TargetDraws == {Random(0, 1), Random(1, 1)}
Deltas == {500, 2500}
Speeds == {1, 2, 4}
FirstStage == 1
Stages == {FirstStage, 5}

\* variance = 0.9 + Math.random() * 0.2
Variance(r) == F64Add(F64Div(9, 10), F64Half(F64Mul(F64Div(2, 10), r.num), r.shift))

\* damage = Math.floor(baseAttack * variance); computed once for each drawn variance
\* and each attack value up to TabulatedAttack, directly beyond.
FloorOfProduct(attack, r) == F64Floor(F64Mul(Variance(r), attack))

TabulatedAttack == 400
VarianceDraws == {Random(0, 1), Random(1, 1)}
DamageTable == [a \in 0..TabulatedAttack, r \in VarianceDraws |-> FloorOfProduct(a, r)]

AttackDamage(attack, r) ==
    IF attack <= TabulatedAttack /\ r \in VarianceDraws
    THEN DamageTable[attack, r]
    ELSE FloorOfProduct(attack, r)

\* Math.floor(Math.random() * aliveEnemies.length)
TargetIndex(r, n) == (r.num * n) \div Pow2(r.shift)

\* createDamageNumber: damage is Math.floor'ed; x, y and opacity are for the renderer only.
createDamageNumber(feed, damage, isHeal) ==
    Append(feed, [damage |-> HP(damage \div HP(1)), lifetime |-> 0, isHeal |-> isHeal])

\* One damage event of a round, for the history variable roundLog.
Event(by, raw, before, td, feedBefore, feedAfter) ==
    [by |-> by, raw |-> raw, defense |-> before.defense, before |-> before.health,
     after |-> td.target.health, maxHealth |-> before.maxHealth, ret |-> td.ret,
     entries |-> Len(feedAfter) - Len(feedBefore),
     amount |-> feedAfter[Len(feedAfter)].damage,
     isHeal |-> feedAfter[Len(feedAfter)].isHeal]

AliveIndices(es) == {i \in DOMAIN es : isAlive(es[i])}

\* The k-th (from 0) living enemy, in list order.
NthAlive(es, k) ==
    CHOOSE i \in AliveIndices(es) : Cardinality({j \in AliveIndices(es) : j < i}) = k

\* st is [hero, enemies, feed, log]; rt and rv are the two Math.random() results.
heroAttack(st, rt, rv) ==
    IF AliveIndices(st.enemies) = {} THEN st
    ELSE LET t == NthAlive(st.enemies, TargetIndex(rt, Cardinality(AliveIndices(st.enemies))))
             damage == AttackDamage(st.hero.attack, rv)
             td == takeDamage(st.enemies[t], damage)
             feed == createDamageNumber(st.feed, td.ret, FALSE)
         IN [st EXCEPT !.enemies[t] = td.target,
                       !.feed = feed,
                       !.log = Append(st.log, Event("hero", damage, st.enemies[t], td, st.feed, feed))]

enemyAttackOnDead(st, i, rv) ==
    LET damage == AttackDamage(st.enemies[i].attack, rv)
        td == takeDamage(st.hero, damage)
        feed == createDamageNumber(st.feed, td.ret, TRUE)
    IN [st EXCEPT !.hero = td.target,
                  !.feed = feed,
                  !.log = Append(st.log, Event("enemy", damage, st.hero, td, st.feed, feed))]

enemyAttack(st, i, rv) ==
    IF ~isAlive(st.hero) THEN st
    ELSE LET damage == AttackDamage(st.enemies[i].attack, rv)
             td == takeDamage(st.hero, damage)
             feed == createDamageNumber(st.feed, td.ret, TRUE)
         IN [st EXCEPT !.hero = td.target,
                       !.feed = feed,
                       !.log = Append(st.log, Event("enemy", damage, st.hero, td, st.feed, feed))]

\* this.enemies.forEach(...): enemy i acts on the state the enemies before it left (x is
\* that state, computed once).
RECURSIVE enemyAttacks(_, _, _)
enemyAttacks(st, i, rs) ==
    CHOOSE after \in
        {IF i > Len(x.enemies) THEN x
         ELSE enemyAttacks(IF isAlive(x.enemies[i]) THEN enemyAttack(x, i, rs[i]) ELSE x,
                           i + 1, rs) : x \in {st}} : TRUE

executeRoundEnemiesFirst(st, rt, rv, rs) ==
    LET after == enemyAttacks(st, 1, rs)
    IN IF isAlive(after.hero) THEN heroAttack(after, rt, rv) ELSE after

\* executeRound: the hero attacks if alive, then every enemy of the list that is alive.
executeRound(st, rt, rv, rs) ==
    enemyAttacks(IF isAlive(st.hero) THEN heroAttack(st, rt, rv) ELSE st, 1, rs)

RECURSIVE spawnWave(_, _, _)
spawnWave(es, max, stageLevel) ==
    IF Len(es) < max THEN spawnWave(Append(es, createEnemyForStage(es, stageLevel)), max, stageLevel)
    ELSE es

checkEnemyRespawnWaveEachCheck(es, defeated, wave, max, stageLevel) ==
    LET alive == SelectSeq(es, isAlive)
    IN [enemies |-> IF Len(alive) < max THEN spawnWave(alive, max, stageLevel) ELSE alive,
        defeated |-> defeated + (Len(es) - Len(alive)),
        wave |-> wave + 1]
checkEnemyRespawnKeepDead(es, defeated, wave, max, stageLevel) ==
    [enemies |-> IF Len(es) < max THEN spawnWave(es, max, stageLevel) ELSE es,
     defeated |-> defeated + (Len(es) - Len(SelectSeq(es, isAlive))),
     wave |-> IF Len(es) < max THEN wave + 1 ELSE wave]
checkEnemyRespawnPerKill(es, defeated, wave, max, stageLevel) ==
    LET alive == SelectSeq(es, isAlive)
    IN [enemies |-> IF Len(alive) < max THEN spawnWave(alive, max, stageLevel) ELSE alive,
        defeated |-> defeated + (Len(es) - Len(alive)),
        wave |-> wave + (Len(es) - Len(alive))]

\* checkEnemyRespawn: the enemy list, the defeat counter and the wave counter afterwards.
checkEnemyRespawn(es, defeated, wave, max, stageLevel) ==
    LET alive == SelectSeq(es, isAlive)
    IN [enemies |-> IF Len(alive) < max THEN spawnWave(alive, max, stageLevel) ELSE alive,
        defeated |-> defeated + (Len(es) - Len(alive)),
        wave |-> IF Len(alive) < max THEN wave + 1 ELSE wave]

\* updateDamageNumbers: age every entry, keep those with lifetime < maxLifetime.
Aged(feed, deltaTime) ==
    [i \in DOMAIN feed |-> [feed[i] EXCEPT !.lifetime = feed[i].lifetime + deltaTime]]

KeptInclusive(n) == n.lifetime <= MaxLifetime

Kept(n) == n.lifetime < MaxLifetime

updateDamageNumbers(feed, deltaTime) == SelectSeq(Aged(feed, deltaTime), Kept)

\* this.timeSinceLastAttack >= this.attackInterval / speed   (speed is 1, 2 or 4)
RoundDueNoSpeed(acc, speed) == acc >= AttackInterval

RoundDue(acc, speed) == acc * speed >= AttackInterval

AccAfter(acc, fired) == IF fired THEN 0 ELSE acc

\* History, per feed entry: the deltaTime passed to update since the entry was created
\* (wall), and the part of it passed to updates that were not short-circuited (ran).
Saturate(t) == Min(t, ElapsedCap)
NoTime == [wall |-> 0, ran |-> 0]
Passed(e, deltaTime, ran) ==
    [wall |-> Saturate(e.wall + deltaTime), ran |-> IF ran THEN e.ran + deltaTime ELSE e.ran]
ElapsedAfter(el, feedRound, deltaTime) ==
    LET all == [i \in 1..Len(feedRound) |->
                  Passed(IF i <= Len(el) THEN el[i] ELSE NoTime, deltaTime, TRUE)]
        keep == {i \in 1..Len(feedRound) : Kept(Aged(feedRound, deltaTime)[i])}
        F[i \in 0..Len(feedRound)] ==
            IF i = 0 THEN <<>> ELSE IF i \in keep THEN Append(F[i - 1], all[i]) ELSE F[i - 1]
    IN F[Len(feedRound)]

\* startBattle: this.maxEnemies = Math.min(5, 3 + Math.floor(stageLevel / 5))
MaxEnemiesFixed(stageLevel) == 3
MaxEnemiesForStage(stageLevel) == Min(5, 3 + stageLevel \div 5)

StartBattle(stageLevel) ==
    /\ battles < MaxBattles
    /\ hero' = heal(hero)
    /\ currentStage' = stageLevel
    /\ currentWave' = 1
    /\ enemiesDefeatedThisStage' = 0
    /\ maxEnemies' = MaxEnemiesForStage(stageLevel)
    /\ enemies' = spawnWave(enemies, maxEnemies', stageLevel)
    /\ isBattleActive' = TRUE
    /\ isPaused' = FALSE
    /\ timeSinceLastAttack' = 0
    /\ damageNumbers' = <<>>
    /\ elapsed' = <<>>
    /\ roundLog' = <<>>
    /\ call' = Call("startBattle", "battle", stageLevel, 0)
    /\ battles' = battles + 1
    /\ UNCHANGED <<skillVars, clockVars, randomVars, speedMultiplier, ledgerVars, offlineCalls>>

\* Skill.update(deltaTime), forwarded by SkillManager.update to every skill
skillUpdate(cooldown, deltaTime) ==
    IF cooldown > 0 THEN Max(0, cooldown - deltaTime) ELSE cooldown

\* SkillManager.update(deltaTime): this.skills.forEach(skill => skill.update(deltaTime))
SkillManagerUpdate(deltaTime) ==
    /\ fireballCooldown' = skillUpdate(fireballCooldown, deltaTime)
    /\ cleaveCooldown' = skillUpdate(cleaveCooldown, deltaTime)
    /\ sinceUse' = Min(FireballCooldown, sinceUse + deltaTime)
    /\ UNCHANGED pendingEffects

ShortCircuitedPauseOnly == isPaused
ShortCircuitedNoPause == ~isBattleActive
ShortCircuited == ~isBattleActive \/ isPaused

\* respawnHero(): this.hero.heal()
respawnHeroNoHeal(h) == h
respawnHero(h) == heal(h)

\* update(deltaTime) while the battle is inactive or paused: returns at once.
UpdateSkipped(deltaTime) ==
    /\ ShortCircuited
    /\ elapsed' = [i \in DOMAIN elapsed |-> Passed(elapsed[i], deltaTime, FALSE)]
    /\ roundLog' = <<>>
    /\ call' = Call("update", "skipped", deltaTime, 0)
    /\ UNCHANGED <<skillVars, clockVars, randomVars,
                   hero, battleVars, ledgerVars, offlineCalls, battles>>

\* update(deltaTime) on an active, unpaused battle; rt, rv, rs are the Math.random()
\* results of the round (target, hero variance, one variance per enemy).
UpdateRan(deltaTime, rt, rv, rs) ==
    /\ ~ShortCircuited
    /\ currentWave < MaxWave
    /\ LET acc == timeSinceLastAttack + deltaTime
           fired == RoundDue(acc, speedMultiplier)
           st0 == [hero |-> hero, enemies |-> enemies, feed |-> damageNumbers, log |-> <<>>]
       IN \E st \in {IF fired THEN executeRound(st0, rt, rv, rs) ELSE st0} :
          \E rsp \in {checkEnemyRespawn(st.enemies, enemiesDefeatedThisStage, currentWave,
                                        maxEnemies, currentStage)} :
             /\ timeSinceLastAttack' = AccAfter(acc, fired)
             /\ damageNumbers' = updateDamageNumbers(st.feed, deltaTime)
             /\ elapsed' = ElapsedAfter(elapsed, st.feed, deltaTime)
             /\ enemies' = rsp.enemies
             /\ enemiesDefeatedThisStage' = rsp.defeated
             /\ currentWave' = rsp.wave
             /\ hero' = IF isAlive(st.hero) THEN st.hero ELSE respawnHero(st.hero)
             /\ roundLog' = st.log
             /\ call' = Call("update", "ran", deltaTime, IF fired THEN 1 ELSE 0)
    /\ SkillManagerUpdate(deltaTime)
    /\ UNCHANGED <<clockVars, adventureLog, currentStage, maxEnemies, isBattleActive,
                   isPaused, speedMultiplier,
                   ledgerVars, offlineCalls, battles>>

\* The Math.random() result of the hero's variance, and those handed to the enemies of
\* one round: the first k enemies draw the low variance, the others the middle one.
HeroVarianceDraws == {Random(0, 1)}
EnemyDraws(n) == {[i \in 1..n |-> IF i <= k THEN Random(0, 1) ELSE Random(1, 1)] : k \in {0, n}}

NoDraw == Random(0, 1)

Update(deltaTime) ==
    \/ UpdateSkipped(deltaTime)
    \/ /\ RoundDue(timeSinceLastAttack + deltaTime, speedMultiplier)
       /\ \E rt \in TargetDraws, rv \in HeroVarianceDraws, rs \in EnemyDraws(Len(enemies)) :
            UpdateRan(deltaTime, rt, rv, rs) /\ UNCHANGED randomStream
    \/ /\ ~RoundDue(timeSinceLastAttack + deltaTime, speedMultiplier)
       /\ UpdateRan(deltaTime, NoDraw, NoDraw, [i \in 1..Len(enemies) |-> NoDraw])
       /\ UNCHANGED randomStream

TogglePause ==
    /\ isPaused' = ~isPaused
    /\ roundLog' = <<>>
    /\ call' = Call("togglePause", "battle", 0, 0)
    /\ UNCHANGED <<skillVars, clockVars, randomVars,
                   hero, enemies, currentStage, currentWave, enemiesDefeatedThisStage,
                   maxEnemies, isBattleActive, timeSinceLastAttack, damageNumbers,
                   speedMultiplier, ledgerVars, offlineCalls, battles, elapsed>>

StopBattle ==
    /\ isBattleActive' = FALSE
    /\ roundLog' = <<>>
    /\ call' = Call("stopBattle", "battle", 0, 0)
    /\ UNCHANGED <<skillVars, clockVars, randomVars,
                   hero, enemies, currentStage, currentWave, enemiesDefeatedThisStage,
                   maxEnemies, isPaused, timeSinceLastAttack, damageNumbers,
                   speedMultiplier, ledgerVars, offlineCalls, battles, elapsed>>

\* A speed button: this.speedMultiplier = Number(target.dataset.speed) || 1
SetSpeed(s) ==
    /\ speedMultiplier' = s
    /\ roundLog' = <<>>
    /\ call' = Call("setSpeed", "game", s, 0)
    /\ UNCHANGED <<skillVars, clockVars, randomVars,
                   hero, enemies, currentStage, currentWave, enemiesDefeatedThisStage,
                   maxEnemies, isBattleActive, isPaused, timeSinceLastAttack, damageNumbers,
                   ledgerVars, offlineCalls, battles, elapsed>>

\* hero.upgrade() on the hero the battle holds.
HeroUpgrade ==
    /\ hero.level < MaxLevel
    /\ hero' = upgrade(hero)
    /\ roundLog' = <<>>
    /\ call' = Call("upgrade", "hero", 0, 0)
    /\ UNCHANGED <<skillVars, clockVars, randomVars,
                   battleVars, ledgerVars, offlineCalls, battles, elapsed>>

\* The heroes handed to the battle: new Hero(0, name, role, baseHealth, baseAttack, baseDefense).
BattleHeroes == {NewHero(20, 250, 25)}

Init ==
    /\ hero \in BattleHeroes
    /\ BattleNew
    /\ LedgerNew
    /\ SkillsNew
    /\ ClockNew
    /\ RandomNew
    /\ HistoryNew

\* Spec: one battle stage driven through the battle manager, the speed buttons and
\* hero upgrades.
Next ==
    \/ StartBattle(FirstStage)
    \/ \E d \in Deltas : Update(d)
    \/ TogglePause
    \/ StopBattle
    \/ \E s \in Speeds : SetSpeed(s)
    \/ HeroUpgrade

Spec == Init /\ [][Next]_vars

\* SpecStages: the battle manager alone, restarted at different stages.
InitStages == Init

NextStages ==
    \/ \E s \in Stages : StartBattle(s)
    \/ \E d \in Deltas : Update(d)
    \/ TogglePause
    \/ StopBattle

SpecStages == InitStages /\ [][NextStages]_vars

\* SpecSpawn: battles started at stages of every enemy type band; their ticks are
\* followed at the stages whose enemies the hero kills within two rounds.
SpawnStages == {2, 5, 7, 12, 13}

NextSpawn ==
    \/ \E s \in SpawnStages : StartBattle(s)
    \/ currentStage <= MaxStageFought /\ \E d \in Deltas : Update(d)

SpecSpawn == Init /\ [][NextSpawn]_vars

(***************************************************************************)
(* SpecLedger: a Game after init(), its ResourceManager driven through      *)
(* update, addGold and spendGold, and Game.upgradeHero.                     *)
(***************************************************************************)
\* The object without the properties fs.
Drop(r, fs) == [f \in DOMAIN r \ fs |-> r[f]]

\* Hero.toJSON as JSON.stringify writes it: an undefined level is left out (id, name and
\* role are the same in every snapshot).
toJSON(h) ==
    Drop([level |-> h.level, baseHealth |-> h.baseHealth, baseAttack |-> h.baseAttack,
          baseDefense |-> h.baseDefense, unlockedSkills |-> h.unlockedSkills],
         IF h.level = Undefined THEN {"level"} ELSE {})

\* createSaveState stamping the clock of the first page load instead of Date.now()
createSaveStateFirstLoad(h, g, gps, stage, t) ==
    [version |-> "1.0", lastSaveTime |-> Epoch, currentStage |-> stage,
     heroes |-> <<toJSON(h)>>,
     resources |-> [gold |-> g, goldPerSecond |-> gps, lastSaveTime |-> Epoch]]

\* createSaveState at Date.now() = t (gems are not modelled).
createSaveState(h, g, gps, stage, t) ==
    [version |-> "1.0", lastSaveTime |-> t, currentStage |-> stage, heroes |-> <<toJSON(h)>>,
     resources |-> [gold |-> g, goldPerSecond |-> gps, lastSaveTime |-> t]]

\* Balances a game starts with: the new-game 1000, or a saved balance plus offline gold.
StartGold == {Gold(StartingGold), Gold(100) + 3}
StartStages == {1}
StartLevels == {1, 2}
LedgerDeltas == {500, 1000}
CreditAmounts == {6}
DebitAmounts == {0, Gold(100) + 2, Gold(2000)}
Bool(b) == IF b THEN 1 ELSE 0

\* Game.init(): heroes created or loaded, idle rates set, the battle started.
InitLedger ==
    /\ \E level \in StartLevels : hero = HeroFromJSON(500, 30, 25, level)
    /\ gold \in StartGold
    /\ gameStage \in StartStages
    /\ goldPerSecond = updateIdleRates(gameStage)
    /\ storage = NoSave
    /\ SkillsNew
    /\ ClockNew
    /\ adventureLog = TRUE
    /\ randomStream = <<>>
    /\ accrued = 0
    /\ currentStage = gameStage
    /\ maxEnemies = MaxEnemiesForStage(gameStage)
    /\ enemies = spawnWave(<<>>, maxEnemies, gameStage)
    /\ currentWave = 1
    /\ enemiesDefeatedThisStage = 0
    /\ isBattleActive = TRUE
    /\ isPaused = FALSE
    /\ timeSinceLastAttack = 0
    /\ damageNumbers = <<>>
    /\ speedMultiplier = 1
    /\ offlineCalls = <<>>
    /\ battles = 1
    /\ elapsed = <<>>
    /\ roundLog = <<>>
    /\ call = Call("init", "game", 0, 0)

\* ResourceManager.update(deltaTime)
ResourceUpdate(deltaTime) ==
    /\ accrued + IdleGold(goldPerSecond, deltaTime) <= MaxAccrued
    /\ gold' = gold + IdleGold(goldPerSecond, deltaTime)
    /\ accrued' = accrued + IdleGold(goldPerSecond, deltaTime)
    /\ call' = Call("update", "resources", deltaTime, 0)
    /\ UNCHANGED <<skillVars, clockVars, randomVars,
                   hero, battleVars, goldPerSecond, gameStage, storage, offlineCalls,
                   battles, elapsed, roundLog>>

AddGold(amount) ==
    /\ accrued + (addGold(gold, amount) - gold) <= MaxAccrued
    /\ gold' = addGold(gold, amount)
    /\ accrued' = accrued + (gold' - gold)
    /\ call' = Call("addGold", "resources", amount, 0)
    /\ UNCHANGED <<skillVars, clockVars, randomVars,
                   hero, battleVars, goldPerSecond, gameStage, storage, offlineCalls,
                   battles, elapsed, roundLog>>

SpendGold(amount) ==
    /\ gold' = spendGold(gold, amount).gold
    /\ call' = Call("spendGold", "resources", amount, Bool(spendGold(gold, amount).ok))
    /\ UNCHANGED <<skillVars, clockVars, randomVars,
                   hero, battleVars, goldPerSecond, gameStage, storage, accrued,
                   offlineCalls, battles, elapsed, roundLog>>

\* Game.upgradeHero: on a successful debit the hero is upgraded and the game saved.
UpgradeHero ==
    /\ \E paid \in {spendGold(gold, Gold(getUpgradeCost(hero)))} :
         /\ gold' = paid.gold
         /\ hero' = IF paid.ok THEN upgrade(hero) ELSE hero
         /\ storage' = IF paid.ok
                       THEN createSaveState(hero', gold', goldPerSecond, gameStage, now)
                       ELSE storage
         /\ savedUntil' = IF paid.ok THEN rewardedUntil ELSE savedUntil
         /\ call' = Call("upgradeHero", "game", getUpgradeCost(hero), Bool(paid.ok))
    /\ UNCHANGED <<skillVars, now, lastSaveTime, rewardedUntil, randomVars,
                   battleVars, goldPerSecond, gameStage, accrued, offlineCalls, battles,
                   elapsed, roundLog>>

NextLedger ==
    \/ \E d \in LedgerDeltas : ResourceUpdate(d)
    \/ \E a \in CreditAmounts : AddGold(a)
    \/ \E a \in DebitAmounts : SpendGold(a)
    \/ UpgradeHero

SpecLedger == InitLedger /\ [][NextLedger]_vars

(***************************************************************************)
(* Loading (storage.js) and SpecLoad: a new Game loading what localStorage  *)
(* holds, saving, and spending gold.                                        *)
(***************************************************************************)
Null == [version |-> "null"]

\* A payload JSON.parse throws on.
CorruptSave == [version |-> "corrupt"]

\* Game.heroes = null
NoHero == [level |-> 0]

\* StorageManager.loadGame: null when the key is missing or JSON.parse throws.
loadGame(payload) == IF payload \in {NoSave, CorruptSave} THEN Null ELSE payload

loadHeroesFromSave(saveState) ==
    IF saveState = Null \/ "heroes" \notin DOMAIN saveState \/ Len(saveState.heroes) = 0
    THEN createStartingHeroes
    ELSE fromJSON(saveState.heroes[1])

loadStageFromSave(saveState) ==
    IF saveState # Null /\ "currentStage" \in DOMAIN saveState /\ saveState.currentStage # 0
    THEN saveState.currentStage
    ELSE 1

\* ResourceManager.fromJSON: this.gold = data.gold || 1000
resourcesFromJSON(data) ==
    IF "gold" \in DOMAIN data /\ data.gold # 0 THEN data.gold ELSE Gold(StartingGold)

\* loadResourcesFromSave on a resource manager holding g
loadResourcesFromSave(saveState, g) ==
    IF saveState # Null /\ "resources" \in DOMAIN saveState
    THEN resourcesFromJSON(saveState.resources)
    ELSE g

\* ResourceManager.fromJSON: this.goldPerSecond = data.goldPerSecond || 0
rateFromJSON(data) == IF "goldPerSecond" \in DOMAIN data THEN data.goldPerSecond ELSE 0

\* loadGameState without its last line: the rate is the one fromJSON read.
loadGameStateStoredRate(saveState, g) ==
    [hero |-> loadHeroesFromSave(saveState),
     stage |-> loadStageFromSave(saveState),
     gold |-> loadResourcesFromSave(saveState, g),
     goldPerSecond |-> IF saveState # Null /\ "resources" \in DOMAIN saveState
                       THEN rateFromJSON(saveState.resources) ELSE 0]
\* Game.loadGameState on a Game whose resource manager holds g
loadGameState(saveState, g) ==
    [hero |-> loadHeroesFromSave(saveState),
     stage |-> loadStageFromSave(saveState),
     gold |-> loadResourcesFromSave(saveState, g),
     goldPerSecond |-> updateIdleRates(loadStageFromSave(saveState))]

\* Snapshots createSaveState wrote, and the same with properties missing.
Snapshots ==
    {createSaveState([HeroFromJSON(500, 30, 25, level) EXCEPT !.unlockedSkills = skills],
                     Gold(250), updateIdleRates(stage), stage, Epoch) :
       level \in {1, 3}, skills \in {<<"fireball">>, <<"fireball", "cleave">>},
       stage \in {1, 2}}
SaveObjects ==
    {Drop([s EXCEPT !.heroes = <<Drop(s.heroes[1], hf)>>], top) :
       s \in Snapshots, hf \in SUBSET {"level", "unlockedSkills"},
       top \in SUBSET {"heroes", "resources", "currentStage"}}
      \cup {[s EXCEPT !.heroes = <<>>] : s \in Snapshots}

InitLoad ==
    /\ hero = NoHero
    /\ BattleNew
    /\ gold = Gold(StartingGold)
    /\ goldPerSecond = 0
    /\ gameStage = 1
    /\ storage \in SaveObjects
    /\ accrued = 0
    /\ SkillsNew
    /\ ClockNew
    /\ RandomNew
    /\ HistoryNew

\* loadGameState(saveState) in a new Game, as init() calls it on what loadGame returned.
LoadGameState ==
    /\ loadGame(storage) # Null
    /\ \E st \in {loadGameState(loadGame(storage), Gold(StartingGold))} :
         /\ hero' = st.hero
         /\ gameStage' = st.stage
         /\ gold' = st.gold
         /\ goldPerSecond' = st.goldPerSecond
    /\ roundLog' = <<>>
    /\ call' = Call("loadGameState", "game", 0, 0)
    /\ UNCHANGED <<skillVars, clockVars, randomVars, battleVars, storage, accrued, offlineCalls, battles,
                   elapsed>>

\* Game.saveGame()
SaveGame ==
    /\ hero # NoHero
    /\ storage' = createSaveState(hero, gold, goldPerSecond, gameStage, now)
    /\ savedUntil' = rewardedUntil
    /\ roundLog' = <<>>
    /\ call' = Call("saveGame", "game", 0, 0)
    /\ UNCHANGED <<skillVars, now, lastSaveTime, rewardedUntil, randomVars, hero, battleVars, gold, goldPerSecond, gameStage,
                   accrued, offlineCalls, battles, elapsed>>

NextLoad ==
    \/ LoadGameState
    \/ SaveGame
    \/ SpendGold(Gold(StartingGold))

SpecLoad == InitLoad /\ [][NextLoad]_vars

(***************************************************************************)
(* SpecGame: Game sessions.  A page load constructs the Game; init() loads   *)
(* or creates the state and starts the battle; then frames tick, the hero   *)
(* is upgraded, stages are advanced, and the page is reloaded later.        *)
(***************************************************************************)
SaveInterval == 30000

AutosaveDueLater(currentTime, last) == currentTime - last > SaveInterval
\* update: if (currentTime - this.lastSaveTime >= this.saveInterval)
AutosaveDue(currentTime, last) == currentTime - last >= SaveInterval

OfflineDueAlways(timeAway) == TRUE
\* checkOfflineEarnings: if (timeAway > 60000)
OfflineDue(timeAway) == timeAway > 60000

\* checkOfflineEarnings at Date.now() = t: the calculateOfflineEarnings calls it makes.
checkOfflineEarnings(saveState, t, stage) ==
    LET last == IF "lastSaveTime" \in DOMAIN saveState /\ saveState.lastSaveTime # 0
                THEN saveState.lastSaveTime ELSE t
    IN IF OfflineDue(t - last) THEN <<calculateOfflineEarnings(t - last, stage)>> ELSE <<>>

\* getStageGoldReward of the stage entered instead of the stage left
getStageGoldRewardEntered(stageLevel) ==
    LET s == stageLevel + 1
        v == Trim(DivPow(MulPow(NatLimbs(50 * s), 11, s), 10, s))
    IN Limb(v, 1) + Base * Limb(v, 2)
\* Math.floor(50 * stageLevel * Math.pow(1.1, stageLevel)): pow(x, 1) is x; for larger
\* exponents the exact value 50 * stage * 11^k / 10^k is floored (for the stages modelled
\* the double is not below a whole number the exact value reaches).
getStageGoldReward(stageLevel) ==
    IF stageLevel = 1 THEN F64Floor(F64Mul(F64Div(11, 10), 50))
    ELSE LET v == Trim(DivPow(MulPow(NatLimbs(50 * stageLevel), 11, stageLevel), 10, stageLevel))
         IN Limb(v, 1) + Base * Limb(v, 2)

\* advanceStage on balance g at stage, goldReward being getStageGoldReward(stage): the
\* balance and stage afterwards, and the ones saveGame() writes.
advanceStageSaveFirst(g, goldReward, stage) ==
    [gold |-> addGold(g, Gold(goldReward)), stage |-> stage + 1,
     savedGold |-> g, savedStage |-> stage + 1]
advanceStage(g, goldReward, stage) ==
    [gold |-> addGold(g, Gold(goldReward)), stage |-> stage + 1,
     savedGold |-> addGold(g, Gold(goldReward)), savedStage |-> stage + 1]

\* new Game() on window load, with nothing or an unparsable payload in localStorage.
InitGame ==
    /\ hero = NoHero
    /\ BattleNew
    /\ gold = Gold(StartingGold)
    /\ goldPerSecond = 0
    /\ gameStage = 1
    /\ storage \in {NoSave, CorruptSave}
    /\ accrued = 0
    /\ SkillsNew
    /\ ClockNew
    /\ RandomNew
    /\ HistoryNew

\* Game.init(): load or create the state, credit offline earnings, start the battle.
GameInit ==
    /\ hero = NoHero
    /\ battles < MaxGameBattles
    /\ \E saveState \in {loadGame(storage)} :
       \E st \in {IF saveState # Null
                  THEN loadGameState(saveState, gold)
                  ELSE [hero |-> createStartingHeroes, stage |-> 1, gold |-> gold,
                        goldPerSecond |-> updateIdleRates(1)]} :
       \E off \in {IF saveState # Null THEN checkOfflineEarnings(saveState, now, st.stage)
                   ELSE <<>>} :
         /\ hero' = heal(st.hero)
         /\ gameStage' = st.stage
         /\ gold' = IF off = <<>> THEN st.gold ELSE addGold(st.gold, Gold(off[1].gold))
         /\ goldPerSecond' = st.goldPerSecond
         /\ offlineCalls' = off
         /\ rewardedUntil' = IF off # <<>> THEN now
                              ELSE IF saveState # Null THEN savedUntil ELSE 0
         /\ currentStage' = st.stage
         /\ maxEnemies' = MaxEnemiesForStage(st.stage)
         /\ enemies' = spawnWave(enemies, maxEnemies', st.stage)
         /\ call' = Call("init", "game", 0, gold' - st.gold)
    /\ currentWave' = 1
    /\ enemiesDefeatedThisStage' = 0
    /\ isBattleActive' = TRUE
    /\ isPaused' = FALSE
    /\ timeSinceLastAttack' = 0
    /\ damageNumbers' = <<>>
    /\ elapsed' = <<>>
    /\ roundLog' = <<>>
    /\ battles' = battles + 1
    /\ adventureLog' = TRUE
    /\ UNCHANGED <<skillVars, now, lastSaveTime, savedUntil, randomStream, speedMultiplier,
                   storage, accrued>>

\* One frame: gameLoop measures deltaTime on the clock and calls update(deltaTime), which
\* updates the battle (the round's Math.random() results are the lowest), the resources,
\* and saves when saveInterval has passed.
GameTick(deltaTime) ==
    /\ hero # NoHero
    /\ now + deltaTime <= MaxTime
    /\ now' = now + deltaTime
    /\ LET acc == timeSinceLastAttack + deltaTime
           fired == ~ShortCircuited /\ RoundDue(acc, speedMultiplier)
           st0 == [hero |-> hero, enemies |-> enemies, feed |-> damageNumbers, log |-> <<>>]
       IN \E st \in {IF fired
                     THEN executeRound(st0, NoDraw, NoDraw, [i \in 1..Len(enemies) |-> NoDraw])
                     ELSE st0} :
          \E rsp \in {IF ShortCircuited
                      THEN [enemies |-> enemies, defeated |-> enemiesDefeatedThisStage,
                            wave |-> currentWave]
                      ELSE checkEnemyRespawn(st.enemies, enemiesDefeatedThisStage,
                                             currentWave, maxEnemies, currentStage)} :
             /\ timeSinceLastAttack' = IF ShortCircuited THEN timeSinceLastAttack
                                       ELSE AccAfter(acc, fired)
             /\ damageNumbers' = IF ShortCircuited THEN damageNumbers
                                 ELSE updateDamageNumbers(st.feed, deltaTime)
             /\ elapsed' = IF ShortCircuited
                           THEN [i \in DOMAIN elapsed |-> Passed(elapsed[i], deltaTime, FALSE)]
                           ELSE ElapsedAfter(elapsed, st.feed, deltaTime)
             /\ enemies' = rsp.enemies
             /\ enemiesDefeatedThisStage' = rsp.defeated
             /\ currentWave' = rsp.wave
             /\ hero' = IF isAlive(st.hero) THEN st.hero ELSE respawnHero(st.hero)
             /\ roundLog' = st.log
    /\ IF ShortCircuited THEN UNCHANGED skillVars ELSE SkillManagerUpdate(deltaTime)
    /\ gold' = gold + IdleGold(goldPerSecond, deltaTime)
    /\ accrued' = accrued + IdleGold(goldPerSecond, deltaTime)
    /\ IF AutosaveDue(now', lastSaveTime)
       THEN /\ storage' = createSaveState(hero', gold', goldPerSecond, gameStage, now')
            /\ lastSaveTime' = now'
            /\ savedUntil' = rewardedUntil
       ELSE UNCHANGED <<storage, lastSaveTime, savedUntil>>
    /\ call' = Call("tick", "game", deltaTime, Bool(AutosaveDue(now', lastSaveTime)))
    /\ UNCHANGED <<randomVars, currentStage, maxEnemies, isBattleActive, isPaused,
                   speedMultiplier, goldPerSecond, gameStage, offlineCalls, battles,
                   rewardedUntil>>

\* Game.advanceStage(): reward, next stage, idle rate, save, new battle.
AdvanceStage ==
    /\ hero # NoHero
    /\ battles < MaxGameBattles
    /\ \E goldReward \in {getStageGoldReward(gameStage)} :
       \E adv \in {advanceStage(gold, goldReward, gameStage)} :
         /\ gold' = adv.gold
         /\ accrued' = accrued + (adv.gold - gold)
         /\ gameStage' = adv.stage
         /\ goldPerSecond' = updateIdleRates(adv.stage)
         /\ storage' = createSaveState(hero, adv.savedGold, updateIdleRates(adv.savedStage),
                                       adv.savedStage, now)
         /\ currentStage' = adv.stage
         /\ maxEnemies' = MaxEnemiesForStage(adv.stage)
         /\ enemies' = spawnWave(enemies, maxEnemies', adv.stage)
         /\ savedUntil' = rewardedUntil
         /\ call' = Call("advanceStage", "game", gameStage, goldReward)
    /\ hero' = heal(hero)
    /\ currentWave' = 1
    /\ enemiesDefeatedThisStage' = 0
    /\ isBattleActive' = TRUE
    /\ isPaused' = FALSE
    /\ timeSinceLastAttack' = 0
    /\ damageNumbers' = <<>>
    /\ elapsed' = <<>>
    /\ roundLog' = <<>>
    /\ battles' = battles + 1
    /\ UNCHANGED <<skillVars, now, lastSaveTime, rewardedUntil, randomVars, speedMultiplier,
                   offlineCalls>>

\* The page is closed and opened again away ms later: a new Game, the same localStorage.
Reload(away) ==
    /\ hero # NoHero
    /\ battles < MaxGameBattles
    /\ hero' = NoHero
    /\ enemies' = <<>>
    /\ currentStage' = 1
    /\ currentWave' = 1
    /\ enemiesDefeatedThisStage' = 0
    /\ maxEnemies' = 3
    /\ isBattleActive' = FALSE
    /\ isPaused' = FALSE
    /\ timeSinceLastAttack' = 0
    /\ damageNumbers' = <<>>
    /\ speedMultiplier' = 1
    /\ gold' = Gold(StartingGold)
    /\ goldPerSecond' = 0
    /\ gameStage' = 1
    /\ accrued' = 0
    /\ fireballCooldown' = 0
    /\ cleaveCooldown' = 0
    /\ pendingEffects' = <<>>
    /\ sinceUse' = FireballCooldown
    /\ now' = now + away
    /\ lastSaveTime' = now'
    /\ rewardedUntil' = 0
    /\ offlineCalls' = <<>>
    /\ elapsed' = <<>>
    /\ roundLog' = <<>>
    /\ adventureLog' = FALSE
    /\ randomStream' = <<>>
    /\ call' = Call("new", "game", away, 0)
    /\ UNCHANGED <<storage, savedUntil, battles>>

TickDeltas == {20000, 30000}
AwayTimes == {45000}

NextGame ==
    \/ GameInit
    \/ \E d \in TickDeltas : GameTick(d)
    \/ hero # NoHero /\ UpgradeHero
    \/ AdvanceStage
    \/ \E away \in AwayTimes : Reload(away)

SpecGame == InitGame /\ [][NextGame]_vars

(***************************************************************************)
(* SpecSession: Game sessions as in SpecGame, the first one opened on a     *)
(* snapshot that another build of the game left in localStorage: its        *)
(* stored goldPerSecond is not the rate of its stage.                       *)
(***************************************************************************)
ForeignSaves ==
    {createSaveState(createStartingHeroes, Gold(250), rate, 2, Epoch) : rate \in {0, 7}}

InitSession ==
    /\ hero = NoHero
    /\ BattleNew
    /\ gold = Gold(StartingGold)
    /\ goldPerSecond = 0
    /\ gameStage = 1
    /\ storage \in ForeignSaves
    /\ accrued = 0
    /\ SkillsNew
    /\ ClockNew
    /\ RandomNew
    /\ HistoryNew

SpecSession == InitSession /\ [][NextGame]_vars
(***************************************************************************)
(* SpecSkill: the battle manager with the hero's Fireball used between      *)
(* updates, through SkillManager.useSkill('fireball', enemies, battle).     *)
(***************************************************************************)
canUseAnyTime(cooldown) == TRUE

\* Skill.canUse(): return this.currentCooldown <= 0
canUse(cooldown) == cooldown <= 0

\* The FIREBALL effect: targets[0] takes floor(floor(attack * 2) * variance).
fireball(st, rv) ==
    IF Len(st.enemies) = 0 THEN st
    ELSE LET damage == AttackDamage(2 * st.hero.attack, rv)
             td == takeDamage(st.enemies[1], damage)
             feed == createDamageNumber(st.feed, td.ret, FALSE)
         IN [st EXCEPT !.enemies[1] = td.target,
                       !.feed = feed,
                       !.log = Append(st.log, Event("fireball", damage, st.enemies[1], td,
                                                    st.feed, feed))]

\* SkillManager.useSkill: false while on cooldown, else the effect and the full cooldown.
UseSkill(rv) ==
    /\ \E st \in {IF canUse(fireballCooldown)
                  THEN fireball([hero |-> hero, enemies |-> enemies, feed |-> damageNumbers,
                                 log |-> <<>>], rv)
                  ELSE [hero |-> hero, enemies |-> enemies, feed |-> damageNumbers,
                        log |-> <<>>]} :
         /\ enemies' = st.enemies
         /\ damageNumbers' = st.feed
         /\ elapsed' = elapsed \o [i \in 1..(Len(st.feed) - Len(damageNumbers)) |-> NoTime]
         /\ roundLog' = st.log
    /\ fireballCooldown' = IF canUse(fireballCooldown) THEN FireballCooldown
                           ELSE fireballCooldown
    /\ sinceUse' = IF canUse(fireballCooldown) THEN 0 ELSE sinceUse
    /\ call' = Call("useSkill", "fireball", 0, Bool(canUse(fireballCooldown)))
    /\ UNCHANGED <<clockVars, randomVars, cleaveCooldown, pendingEffects, hero, currentStage,
                   currentWave, enemiesDefeatedThisStage,
                   maxEnemies, isBattleActive, isPaused, timeSinceLastAttack,
                   speedMultiplier, ledgerVars, offlineCalls, battles>>

NextSkill ==
    \/ StartBattle(FirstStage)
    \/ \E d \in Deltas : Update(d)
    \/ TogglePause
    \/ StopBattle
    \/ \E rv \in HeroVarianceDraws : UseSkill(rv)

SpecSkill == Init /\ [][NextSkill]_vars

\* SpecWaves: battles restarted at different stages, with Fireball, never paused.
NextWaves ==
    \/ \E s \in Stages : StartBattle(s)
    \/ \E d \in Deltas : Update(d)
    \/ \E rv \in HeroVarianceDraws : UseSkill(rv)

SpecWaves == Init /\ [][NextWaves]_vars

(***************************************************************************)
(* SpecCleave: the battle manager with Fireball and Cleave.  Cleave hits    *)
(* every living enemy at once and schedules one setTimeout callback per hit *)
(* that adds the hit's effect entry later; the callbacks run one at a time, *)
(* in the order of their delays, between the other operations.              *)
(***************************************************************************)
\* this.skills.find(s => s.id === skillId)
Unlocked(skillId) == \E i \in DOMAIN hero.unlockedSkills : hero.unlockedSkills[i] = skillId

\* Math.floor(caster.attack * 0.8), computed ahead for the attack values tabulated.
CleaveBaseTable == [a \in 0..TabulatedAttack |-> F64Floor(F64Mul(F64Div(8, 10), a))]
CleaveBaseDamage(attack) == CleaveBaseTable[attack]

\* The CLEAVE effect from enemy i on: every living target takes the damage at once and a
\* callback holding the damage dealt is scheduled; battle numbers the startBattle calls
\* so far (history).
RECURSIVE cleave(_, _, _)
cleave(st, i, rv) ==
    IF i > Len(st.enemies) THEN st
    ELSE IF ~isAlive(st.enemies[i]) THEN cleave(st, i + 1, rv)
    ELSE LET td == takeDamage(st.enemies[i],
                              AttackDamage(CleaveBaseDamage(st.hero.attack), rv))
         IN cleave([st EXCEPT !.enemies[i] = td.target,
                              !.pending = Append(@, [damage |-> td.ret,
                                                     battle |-> st.battle])],
                   i + 1, rv)

\* SkillManager.unlockSkill('cleave')
UnlockSkill ==
    /\ ~Unlocked("cleave")
    /\ hero' = [hero EXCEPT !.unlockedSkills = Append(@, "cleave")]
    /\ roundLog' = <<>>
    /\ call' = Call("unlockSkill", "cleave", 0, 0)
    /\ UNCHANGED <<skillVars, clockVars, randomVars, battleVars, ledgerVars, offlineCalls,
                   battles, elapsed>>

\* SkillManager.useSkill('cleave', enemies, battle): false when the skill is not among
\* the unlocked ones or is on cooldown, else the effect and the full cooldown.
UseCleave(rv) ==
    /\ IF Unlocked("cleave") /\ canUse(cleaveCooldown)
       THEN \E st \in {cleave([hero |-> hero, enemies |-> enemies,
                               pending |-> pendingEffects, battle |-> battles], 1, rv)} :
               /\ enemies' = st.enemies
               /\ pendingEffects' = st.pending
               /\ cleaveCooldown' = CleaveCooldown
       ELSE UNCHANGED <<enemies, pendingEffects, cleaveCooldown>>
    /\ roundLog' = <<>>
    /\ call' = Call("useSkill", "cleave", 0, Bool(Unlocked("cleave") /\ canUse(cleaveCooldown)))
    /\ UNCHANGED <<clockVars, randomVars, fireballCooldown, sinceUse, hero, currentStage,
                   currentWave, enemiesDefeatedThisStage, maxEnemies, isBattleActive,
                   isPaused, timeSinceLastAttack, damageNumbers, speedMultiplier,
                   ledgerVars, offlineCalls, battles, elapsed>>

\* The earliest pending callback runs:
\* battleManager.createDamageNumber(enemy.x, enemy.y, actualDamage, false)
EffectTimeout ==
    /\ pendingEffects # <<>>
    /\ damageNumbers' = createDamageNumber(damageNumbers, Head(pendingEffects).damage, FALSE)
    /\ elapsed' = Append(elapsed, NoTime)
    /\ pendingEffects' = Tail(pendingEffects)
    /\ roundLog' = <<>>
    /\ call' = Call("timeout", "cleave", Head(pendingEffects).battle, 0)
    /\ UNCHANGED <<clockVars, randomVars, fireballCooldown, cleaveCooldown, sinceUse, hero,
                   enemies, currentStage, currentWave, enemiesDefeatedThisStage, maxEnemies,
                   isBattleActive, isPaused, timeSinceLastAttack, speedMultiplier,
                   ledgerVars, offlineCalls, battles>>

NextCleave ==
    \/ StartBattle(FirstStage)
    \/ \E d \in Deltas : Update(d)
    \/ UnlockSkill
    \/ \E rv \in HeroVarianceDraws : UseCleave(rv)
    \/ EffectTimeout

SpecCleave == Init /\ [][NextCleave]_vars

\* SpecCooldown: battles with pauses in which Fireball and Cleave are used, Cleave before
\* and after the hero unlocked it; the callbacks of a Cleave run before the next operation.
CooldownDeltas == {2500}

NextCooldown ==
    \/ pendingEffects = <<>> /\ StartBattle(FirstStage)
    \/ pendingEffects = <<>> /\ \E d \in CooldownDeltas : Update(d)
    \/ pendingEffects = <<>> /\ TogglePause
    \/ pendingEffects = <<>> /\ \E rv \in HeroVarianceDraws : UseSkill(rv)
    \/ pendingEffects = <<>> /\ UnlockSkill
    \/ pendingEffects = <<>> /\ \E rv \in HeroVarianceDraws : UseCleave(rv)
    \/ EffectTimeout

SpecCooldown == Init /\ [][NextCooldown]_vars

(***************************************************************************)
(* SpecAccrual: the ResourceManager of a Game at a fixed stage, updated     *)
(* once per animation frame and read through getGold.  The frames are of    *)
(* any length, so the amounts are not multiples of a quarter gold and gold  *)
(* holds the binary64 value the code computes.                              *)
(***************************************************************************)
AccrualStages == 1..3
AccrualDeltas == {200, 400, 800, 2000}

\* this.gold += this.goldPerSecond * (deltaTime / 1000), goldPerSecond = stage * 0.5
accrue(g, gps, deltaTime) == F64Add(g, F64Half(F64Mul(F64Div(deltaTime, 1000), gps), 1))

\* getGold(): Math.floor(this.gold)
getGold(g) == F64Floor(g)

InitAccrual ==
    /\ hero = createStartingHeroes
    /\ BattleNew
    /\ gold = F64Nat(StartingGold)
    /\ gameStage \in AccrualStages
    /\ goldPerSecond = updateIdleRates(gameStage)
    /\ storage = NoSave
    /\ accrued = 0
    /\ SkillsNew
    /\ ClockNew
    /\ RandomNew
    /\ offlineCalls = <<>>
    /\ battles = 0
    /\ elapsed = <<>>
    /\ roundLog = <<>>
    /\ call = Call("init", "game", 0, 0)

\* One frame: deltaTime = currentTime - lastTime, then ResourceManager.update(deltaTime).
AccrualUpdate(deltaTime) ==
    /\ now + deltaTime <= Epoch + MaxAccrualTime
    /\ now' = now + deltaTime
    /\ gold' = accrue(gold, goldPerSecond, deltaTime)
    /\ call' = Call("update", "resources", deltaTime, 0)
    /\ UNCHANGED <<skillVars, lastSaveTime, rewardedUntil, savedUntil, randomVars, hero,
                   battleVars, goldPerSecond,
                   gameStage, storage, accrued, offlineCalls, battles, elapsed, roundLog>>

\* ResourceManager.getGold()
GetGold ==
    /\ call' = Call("getGold", "resources", 0, getGold(gold))
    /\ UNCHANGED <<skillVars, clockVars, randomVars, hero, battleVars, ledgerVars,
                   offlineCalls, battles, elapsed, roundLog>>

NextAccrual ==
    \/ \E d \in AccrualDeltas : AccrualUpdate(d)
    \/ GetGold

SpecAccrual == InitAccrual /\ [][NextAccrual]_vars
(***************************************************************************)
(* SpecProgress: a battle of a hero whose attack is 0 and whose defense    *)
(* exceeds twice the enemies' attack, so that every hit on either side is   *)
(* the minimum damage of takeDamage, updated frame after frame by the game  *)
(* loop.  The hero's target is the first living enemy.                      *)
(***************************************************************************)
ProgressHeroes == {NewHero(500, 0, 60)}
ProgressDeltas == {500, 2500}

\* startBattle(hero, 1) on a new battle manager.
InitProgress ==
    /\ \E h \in ProgressHeroes : hero = heal(h)
    /\ currentStage = FirstStage
    /\ currentWave = 1
    /\ enemiesDefeatedThisStage = 0
    /\ maxEnemies = MaxEnemiesForStage(FirstStage)
    /\ enemies = spawnWave(<<>>, maxEnemies, FirstStage)
    /\ isBattleActive = TRUE
    /\ isPaused = FALSE
    /\ timeSinceLastAttack = 0
    /\ damageNumbers = <<>>
    /\ speedMultiplier = 1
    /\ LedgerNew
    /\ SkillsNew
    /\ ClockNew
    /\ RandomNew
    /\ offlineCalls = <<>>
    /\ battles = 1
    /\ elapsed = <<>>
    /\ roundLog = <<>>
    /\ call = Call("startBattle", "battle", FirstStage, 0)

\* update(deltaTime) of an active battle, the target draw being 0.
Frame(deltaTime) ==
    /\ \E rs \in EnemyDraws(Len(enemies)) : UpdateRan(deltaTime, Random(0, 1), NoDraw, rs)
    /\ UNCHANGED randomStream

NextProgress == \E d \in ProgressDeltas : Frame(d)

\* requestAnimationFrame calls gameLoop, and gameLoop update, for every frame.
SpecProgress == InitProgress /\ [][NextProgress]_vars /\ WF_vars(NextProgress)
(***************************************************************************)
(* SpecRandom: battle ticks whose Math.random() results are read from one   *)
(* stream in the order the code calls Math.random(), with the adventure log *)
(* attached (as Game.init does) or not.                                     *)
(***************************************************************************)
MaxDraws == 12

\* The streams handed to an update: all 0, all 0.5, and the two alternations.
Streams ==
    {[i \in 1..MaxDraws |-> IF (i + a) % b = 0 THEN Random(1, 1) ELSE Random(0, 1)] :
        a \in 0..1, b \in 1..2}

\* Math.random() calls of one attack that the log guard adds:
\* if (this.adventureLog && Math.random() < 0.1) ...
LogDraws(logged) == IF logged THEN 1 ELSE 0

\* heroAttack on a stream; st carries the number of results consumed so far.
heroAttackOnStream(st, stream, logged) ==
    IF AliveIndices(st.enemies) = {} THEN st
    ELSE [heroAttack(st, stream[st.drawn + 1], stream[st.drawn + 2])
            EXCEPT !.drawn = st.drawn + 2 + LogDraws(logged)]

enemyAttackOnStream(st, i, stream, logged) ==
    IF ~isAlive(st.hero) THEN st
    ELSE [enemyAttack(st, i, stream[st.drawn + 1])
            EXCEPT !.drawn = st.drawn + 1 + LogDraws(logged)]

RECURSIVE enemyAttacksOnStream(_, _, _, _)
enemyAttacksOnStream(st, i, stream, logged) ==
    IF i > Len(st.enemies) THEN st
    ELSE enemyAttacksOnStream(IF isAlive(st.enemies[i])
                              THEN enemyAttackOnStream(st, i, stream, logged) ELSE st,
                              i + 1, stream, logged)

executeRoundOnStream(st, stream, logged) ==
    enemyAttacksOnStream(IF isAlive(st.hero) THEN heroAttackOnStream(st, stream, logged)
                         ELSE st, 1, stream, logged)

\* checkEnemyRespawn: if (this.adventureLog && Math.random() < 0.2) for each dead enemy.
RespawnDraws(es, logged) == LogDraws(logged) * (Len(es) - Len(SelectSeq(es, isAlive)))

\* Game.init: this.battleManager.adventureLog = this.adventureLog
AttachLog ==
    /\ ~adventureLog
    /\ adventureLog' = TRUE
    /\ randomStream' = <<>>
    /\ roundLog' = <<>>
    /\ call' = Call("attachLog", "battle", 0, 0)
    /\ UNCHANGED <<skillVars, clockVars, hero, battleVars, ledgerVars, offlineCalls, battles,
                   elapsed>>

\* update(deltaTime) on an active, unpaused battle with Math.random() returning the
\* results of stream in order.
UpdateOnStream(deltaTime, stream) ==
    /\ ~ShortCircuited
    /\ currentWave < MaxWave
    /\ LET acc == timeSinceLastAttack + deltaTime
           fired == RoundDue(acc, speedMultiplier)
           st0 == [hero |-> hero, enemies |-> enemies, feed |-> damageNumbers, log |-> <<>>,
                   drawn |-> 0]
       IN \E st \in {IF fired THEN executeRoundOnStream(st0, stream, adventureLog) ELSE st0} :
          \E rsp \in {checkEnemyRespawn(st.enemies, enemiesDefeatedThisStage, currentWave,
                                        maxEnemies, currentStage)} :
             /\ timeSinceLastAttack' = AccAfter(acc, fired)
             /\ damageNumbers' = updateDamageNumbers(st.feed, deltaTime)
             /\ elapsed' = ElapsedAfter(elapsed, st.feed, deltaTime)
             /\ enemies' = rsp.enemies
             /\ enemiesDefeatedThisStage' = rsp.defeated
             /\ currentWave' = rsp.wave
             /\ hero' = IF isAlive(st.hero) THEN st.hero ELSE respawnHero(st.hero)
             /\ roundLog' = st.log
             /\ randomStream' = SubSeq(stream, 1, st.drawn + RespawnDraws(st.enemies, adventureLog))
             /\ call' = Call("update", "ran", deltaTime, IF fired THEN 1 ELSE 0)
    /\ SkillManagerUpdate(deltaTime)
    /\ UNCHANGED <<clockVars, adventureLog, currentStage, maxEnemies, isBattleActive,
                   isPaused, speedMultiplier, ledgerVars, offlineCalls, battles>>

NextRandom ==
    \/ AttachLog
    \/ StartBattle(FirstStage)
    \/ \E d \in Deltas, stream \in Streams : UpdateOnStream(d, stream)

SpecRandom == Init /\ [][NextRandom]_vars

(***************************************************************************)
(* Properties.                                                             *)
(***************************************************************************)
\* The combatant the unit harness acts on.
Target == IF call.who = "hero" THEN hero ELSE enemies[1]

\* The mitigated amount of a raw hit on c, in half points: max(1, raw - defense * 0.5).
Mitigated(c, raw) == Max(HP(1), 2 * raw - c.defense)

\* C1: whenever takeDamage(d) is called on a Hero or Enemy whose health is at least the
\* mitigated amount, the value returned equals the amount by which health decreased.
C1_ReturnEqualsHealthLoss ==
    [][(call'.op = "takeDamage" /\ Target.health >= Mitigated(Target, call'.arg))
          => call'.ret = Target.health - Target'.health]_vars

\* C3: takeDamage(rawAmount) returns a whole number >= 1 for every rawAmount >= 0 and
\* defense >= 0, also when rawAmount is smaller than the reduction defense * 0.5.
C3_DamageFloor ==
    call.op = "takeDamage" => (call.ret % HP(1) = 0 /\ call.ret >= HP(1))

C3_Witness ==
    /\ call.op = "takeDamage"
    /\ 2 * call.arg < Target.defense
    /\ call.ret = HP(1)

\* C2: 0 <= health <= maxHealth for the hero and every enemy after every operation of
\* a session of startBattle, battle ticks and upgrade, and after every single hit of a
\* round (the health each takeDamage call leaves).
InBounds(health, maxHealth) == 0 <= health /\ health <= HP(maxHealth)

C2_HealthBounds ==
    /\ InBounds(hero.health, hero.maxHealth)
    /\ \A i \in DOMAIN enemies : InBounds(enemies[i].health, enemies[i].maxHealth)
    /\ \A i \in DOMAIN roundLog : InBounds(roundLog[i].after, roundLog[i].maxHealth)

\* A hit larger than the health left: the clamp at 0 engaged, on an enemy and on the
\* hero in the same round, with the hero upgraded.
C2_Witness ==
    /\ hero.level > 1
    /\ \E i, j \in DOMAIN roundLog :
         /\ roundLog[i].by = "hero" /\ roundLog[j].by = "enemy"
         /\ roundLog[i].after = 0 /\ roundLog[j].after = 0
         /\ roundLog[i].before < Max(HP(1), 2 * roundLog[i].raw - roundLog[i].defense)
         /\ roundLog[j].before < Max(HP(1), 2 * roundLog[j].raw - roundLog[j].defense)

\* C4: after every update in which checkEnemyRespawn ran, whatever startBattle, update
\* and togglePause calls came before, the enemy list holds exactly maxEnemies enemies.
C4_LiveCountIsMax ==
    (call.op = "update" /\ call.who = "ran") => Len(enemies) = maxEnemies

\* The rounds executeRound ran in an operation: the hero is alive and faces a living
\* enemy at the start of every update, so each round logs exactly one hero attack.
Rounds(log) == Cardinality({i \in DOMAIN log : log[i].by = "hero"})

\* C5: one update(deltaTime) on an active, unpaused battle runs executeRound at most
\* once, exactly when accumulator + deltaTime >= attackInterval / speedMultiplier, and
\* the accumulator is 0 after a round ran.
C5_RoundFiring ==
    [][(call'.op = "update" /\ isBattleActive /\ ~isPaused)
          => /\ Rounds(roundLog') <= 1
             /\ Rounds(roundLog') = 1
                  <=> timeSinceLastAttack + call'.arg >= AttackInterval \div speedMultiplier
             /\ Rounds(roundLog') = 1 => timeSinceLastAttack' = 0
             /\ Len(roundLog') <= 1 + Len(enemies)]_vars

\* update(2500) at speed 1 with an empty accumulator: one round, accumulator 0.
C5_Witness ==
    /\ call.op = "update" /\ call.arg = 2500
    /\ speedMultiplier = 1
    /\ Rounds(roundLog) = 1
    /\ timeSinceLastAttack = 0

\* C6 as stated: an entry is absent once the deltaTime passed to update since its
\* creation, over all update calls, sums to more than 1000 ms.
C6_ExpiryByPassedTime ==
    \A i \in DOMAIN elapsed : elapsed[i].wall <= 1000

\* C6 amended: an entry is absent once the deltaTime passed to the updates that were not
\* short-circuited since its creation sums to 1000 ms or more, however that time is
\* split into steps; an entry of the feed after an update is either one created in that
\* update or one that was in the feed before it, so a removed entry never comes back.
C6_ExpiryByProcessedTime ==
    /\ [](/\ Len(elapsed) = Len(damageNumbers)
          /\ \A i \in DOMAIN elapsed : elapsed[i].ran < 1000)
    /\ [][\A j \in DOMAIN damageNumbers' :
            \/ call'.op = "update" /\ elapsed'[j].ran = call'.arg
            \/ \E i \in DOMAIN damageNumbers :
                 /\ damageNumbers'[j].damage = damageNumbers[i].damage
                 /\ damageNumbers'[j].isHeal = damageNumbers[i].isHeal
                 /\ elapsed'[j].ran >= elapsed[i].ran
                 /\ elapsed'[j].wall >= elapsed[i].wall]_vars

\* An entry aged 500 ms by the update that created it, still in the feed after updates
\* on the paused battle were passed more than another 500 ms.
C6_Witness ==
    /\ call.op = "update" /\ call.who = "skipped"
    /\ \E i \in DOMAIN damageNumbers :
         /\ damageNumbers[i].lifetime = 500
         /\ elapsed[i].ran = 500
         /\ elapsed[i].wall > 1000

\* C7: every damage event of a round appends exactly one effect entry whose amount is
\* the mitigated damage applied to the target, max(1, raw - defense * 0.5), and whose
\* isHeal flag is false.
C7_EffectEntries ==
    \A i \in DOMAIN roundLog :
        /\ roundLog[i].entries = 1
        /\ roundLog[i].amount = Max(HP(1), 2 * roundLog[i].raw - roundLog[i].defense)
        /\ roundLog[i].isHeal = FALSE

\* C8: calculateOfflineEarnings(elapsedMs, stage).gold equals
\* floor(stage * 10 * min(elapsedMs, 7 200 000) / 1000); every elapsedMs >= 7 200 000
\* yields the gold of 7 200 000; the result is non-decreasing in elapsedMs.
C8_OfflineGoldFormula ==
    /\ \A i \in DOMAIN offlineCalls :
         LET c == offlineCalls[i]
         IN /\ c.gold = (c.stage * 10 * Min(c.timeAwayMs, 7200000)) \div 1000
            /\ c.timeAwayMs >= 7200000 => c.gold = c.stage * 72000
    /\ \A i, j \in DOMAIN offlineCalls :
         (offlineCalls[i].stage = offlineCalls[j].stage
            /\ offlineCalls[i].timeAwayMs <= offlineCalls[j].timeAwayMs)
         => offlineCalls[i].gold <= offlineCalls[j].gold

C10_UpgradeGatedByDebit ==
    [][/\ call'.op = "upgradeHero"
          => LET c == call'.arg
                 cube == 10000 * hero.level * hero.level * hero.level
             IN /\ c * c <= cube /\ cube < (c + 1) * (c + 1)
                /\ IF gold >= Gold(c)
                   THEN gold' = gold - Gold(c) /\ hero'.level = hero.level + 1
                   ELSE gold' = gold /\ hero' = hero
       /\ hero'.level # hero.level
          => call'.op = "upgradeHero" /\ gold' = gold - Gold(call'.arg)]_vars

\* A paid upgrade followed by one the remaining gold does not cover.
C10_Witness ==
    /\ call.op = "upgradeHero" /\ call.ret = 0
    /\ hero.level > 2
    /\ storage # NoSave
    /\ storage.heroes[1].level = hero.level
    /\ storage.resources.gold = gold

\* The StatModel value floor(base * (1 + (level - 1) * pct / 100)) in exact arithmetic.
StatModel(base, level, pct) == (base * (100 + (level - 1) * pct)) \div 100

\* C11: Hero.upgrade() raises level by exactly 1, sets maxHealth, attack and defense to
\* the StatModel values of the new level (15, 10 and 8 percent per level), and adds
\* exactly newMaxHealth - oldMaxHealth to health, so health / maxHealth never decreases.
C11_UpgradeStats ==
    [][hero' # hero /\ call'.op = "upgradeHero"
         => /\ hero'.level = hero.level + 1
            /\ hero'.maxHealth = StatModel(hero.baseHealth, hero'.level, 15)
            /\ hero'.attack = StatModel(hero.baseAttack, hero'.level, 10)
            /\ hero'.defense = StatModel(hero.baseDefense, hero'.level, 8)
            /\ hero'.health = hero.health + HP(hero'.maxHealth - hero.maxHealth)
            /\ hero'.health * hero.maxHealth >= hero.health * hero'.maxHealth]_vars

\* C17: from any prior state, paused or stopped ones included, startBattle(hero, stage)
\* leaves currentStage = stage, currentWave = 1, the defeat counter 0, maxEnemies =
\* min(5, 3 + floor(stage / 5)), a value in {3, 4, 5}, the hero at full health, the feed
\* empty, the accumulator 0 and the battle active and not paused.
C17_StartBattleResets ==
    [][call'.op = "startBattle"
         => /\ currentStage' = call'.arg
            /\ currentWave' = 1
            /\ enemiesDefeatedThisStage' = 0
            /\ maxEnemies' = Min(5, 3 + call'.arg \div 5)
            /\ \A s \in 1..MaxStageChecked : MaxEnemiesForStage(s) \in {3, 4, 5}
            /\ hero'.health = HP(hero'.maxHealth)
            /\ damageNumbers' = <<>>
            /\ timeSinceLastAttack' = 0
            /\ isBattleActive' /\ ~isPaused']_vars

\* A second battle started at stage 5 over the remains of an earlier one.
C17_Witness ==
    /\ call.op = "startBattle" /\ call.arg = 5
    /\ battles = 2
    /\ maxEnemies = 4 /\ Len(enemies) = 4 /\ enemies[1].maxHealth = EnemyBaseHealth
    /\ isBattleActive /\ ~isPaused /\ hero.health = HP(hero.maxHealth)

\* C15: at the end of every update that was not short-circuited the hero is alive: a
\* hero whose health reached 0 in the round is back at maxHealth within the same tick,
\* so no round starts with a dead hero.
C15_HeroAliveAfterUpdate ==
    [][(call'.op = "update" /\ call'.who = "ran")
         => /\ isAlive(hero)
            /\ isAlive(hero')
            /\ (\E i \in DOMAIN roundLog' : roundLog'[i].by = "enemy" /\ roundLog'[i].after = 0)
                  => hero'.health = HP(hero'.maxHealth)]_vars

\* An update whose round killed the hero and that returned with the hero at full health.
C15_Witness ==
    /\ call.op = "update" /\ call.who = "ran" /\ call.ret = 1
    /\ \E i \in DOMAIN roundLog : roundLog[i].by = "enemy" /\ roundLog[i].after = 0
    /\ hero.health = HP(hero.maxHealth)

\* Enemies checkEnemyRespawn removes in the update leading to the next state: those
\* already dead when update is called and those the hero's attack of the round kills.
Removed ==
    Cardinality({i \in DOMAIN enemies : ~isAlive(enemies[i])})
      + Cardinality({i \in DOMAIN roundLog' : roundLog'[i].by = "hero" /\ roundLog'[i].after = 0})

\* C16: each checkEnemyRespawn raises currentWave by exactly 1 when the live enemy count
\* after removing the dead is below maxEnemies and by 0 otherwise, however many enemies
\* died; between two startBattle calls currentWave never decreases.
C16_WaveCounter ==
    [][/\ (call'.op = "update" /\ call'.who = "ran")
            => /\ enemiesDefeatedThisStage' = enemiesDefeatedThisStage + Removed
               /\ currentWave' = currentWave
                                   + (IF Len(enemies) - Removed < maxEnemies THEN 1 ELSE 0)
       /\ call'.op # "startBattle" => currentWave' >= currentWave]_vars

\* One respawn check of the first battle removed two enemies (one killed by Fireball,
\* one by the round) and raised the wave once.
C16_Witness ==
    /\ call.op = "update" /\ call.who = "ran"
    /\ battles = 1
    /\ enemiesDefeatedThisStage = 2
    /\ currentWave = 2

\* A respawn check that removed an enemy and left the wave alone: the live count was
\* still at maxEnemies or above.
C16_WitnessNoWave ==
    /\ call.op = "update" /\ call.who = "ran"
    /\ enemiesDefeatedThisStage = 1
    /\ currentWave = 1

\* C18: while the battle is paused or not active (which includes having no hero yet),
\* update(deltaTime) leaves all battle state unchanged: the enemy list and healths, hero
\* health, the attack accumulator, the effect feed with its ages, the wave and defeat
\* counters and the skill cooldowns.
C18_SkippedUpdateChangesNothing ==
    [][(call'.op = "update" /\ (isPaused \/ ~isBattleActive))
         => UNCHANGED <<hero, enemies, timeSinceLastAttack, damageNumbers, currentWave,
                        enemiesDefeatedThisStage, fireballCooldown, currentStage,
                        maxEnemies, isPaused, isBattleActive>>]_vars

\* An update returned at once on a paused battle with a damaged hero, a running
\* accumulator, an ageing feed entry and Fireball on cooldown.
C18_Witness ==
    /\ call.op = "update" /\ call.who = "skipped"
    /\ isPaused /\ isBattleActive
    /\ fireballCooldown > 0 /\ fireballCooldown < FireballCooldown
    /\ timeSinceLastAttack > 0
    /\ hero.health < HP(hero.maxHealth)
    /\ \E i \in DOMAIN damageNumbers : damageNumbers[i].lifetime > 0

\* C12: save/load is a pure mapping: for every state with stage >= 1, hero level >= 1
\* and gold >= 0, loading the snapshot createSaveState produced from it, with no time gap,
\* restores the same currentStage, hero level, base stats and unlockedSkills, and the same
\* gold balance.
C12_SaveLoadRoundTrip ==
    [][(/\ call'.op = "loadGameState"
        /\ hero # NoHero /\ hero.level >= 1 /\ gameStage >= 1 /\ gold >= 0
        /\ storage = createSaveState(hero, gold, goldPerSecond, gameStage, now))
         => /\ gameStage' = gameStage
            /\ hero'.level = hero.level
            /\ hero'.baseHealth = hero.baseHealth
            /\ hero'.baseAttack = hero.baseAttack
            /\ hero'.baseDefense = hero.baseDefense
            /\ hero'.unlockedSkills = hero.unlockedSkills
            /\ gold' = gold]_vars

\* The save object holds no hero, or no unlockedSkills for its hero.
NoHeroSaved(saveState) == "heroes" \notin DOMAIN saveState \/ Len(saveState.heroes) = 0
Numeric(v) == v # NaN /\ v # Undefined

\* C13: loading degrades to defaults: for every parsed save object with any subset of
\* heroes, the hero's level or unlockedSkills, resources and currentStage missing, the
\* load functions yield a hero whose level is an integer >= 1 and whose stats are numbers
\* (a fresh level-1 hero when no hero is saved), unlockedSkills = <<"fireball">> when they
\* are missing, a stage >= 1, and gold 1000 when no resources are saved.
C13_LoadDefaults ==
    [][call'.op = "loadGameState"
         => /\ Numeric(hero'.level) /\ hero'.level >= 1
            /\ Numeric(hero'.maxHealth) /\ Numeric(hero'.health)
            /\ Numeric(hero'.attack) /\ Numeric(hero'.defense)
            /\ NoHeroSaved(storage) => hero' = createStartingHeroes
            /\ (~NoHeroSaved(storage) /\ "unlockedSkills" \notin DOMAIN storage.heroes[1])
                  => hero'.unlockedSkills = <<"fireball">>
            /\ gameStage' >= 1
            /\ "currentStage" \notin DOMAIN storage => gameStage' = 1
            /\ "resources" \notin DOMAIN storage => gold' = Gold(StartingGold)]_vars

\* C14: loadGame never throws: for a missing or unparsable payload it returns null, and
\* Game.init then initialises a fresh game (the level-1 starting hero, stage 1, gold
\* 1000) and credits no offline reward.
C14_FreshGameOnBadPayload ==
    (call.op = "init" /\ storage \in {NoSave, CorruptSave})
       => /\ loadGame(storage) = Null
          /\ hero.level = 1
          /\ hero.baseHealth = 500 /\ hero.baseAttack = 30 /\ hero.baseDefense = 25
          /\ hero.maxHealth = 500 /\ hero.health = HP(500)
          /\ hero.attack = 30 /\ hero.defense = 25
          /\ hero.unlockedSkills = <<"fireball">>
          /\ gameStage = 1 /\ currentStage = 1 /\ isBattleActive
          /\ gold = Gold(1000)
          /\ offlineCalls = <<>> /\ call.ret = 0

\* init() ran on an unparsable payload.
C14_Witness ==
    /\ call.op = "init" /\ storage = CorruptSave
    /\ hero.level = 1 /\ gold = Gold(1000) /\ gameStage = 1

\* Gold the operation leading to the next state adds, besides an offline reward.
SessionGold ==
    IF call'.op = "tick" THEN IdleGold(goldPerSecond, call'.arg)
    ELSE IF call'.op = "advanceStage" THEN Gold(call'.ret)
    ELSE IF call'.op = "upgradeHero" /\ call'.ret = 1 THEN 0 - Gold(call'.arg)
    ELSE 0

C20_SnapshotConsistentCut ==
    [][(hero # NoHero /\ hero' # NoHero)
         => /\ storage' # storage
                 => storage' = createSaveState(hero', gold', goldPerSecond', gameStage', now')
            /\ gameStage' # gameStage
                 => /\ gameStage' = gameStage + 1
                    /\ gold' = gold + Gold(getStageGoldReward(gameStage))
                    /\ storage'.currentStage = gameStage'
                    /\ storage'.resources.gold = gold'
            /\ hero'.level # hero.level
                 => /\ hero'.level = hero.level + 1
                    /\ gold' = gold - Gold(getUpgradeCost(hero))
                    /\ storage'.heroes[1].level = hero'.level
                    /\ storage'.resources.gold = gold'
            /\ call'.op = "advanceStage" => gameStage' = gameStage + 1]_vars

\* The snapshot written by advanceStage after an upgrade: stage 2, level 2, and the
\* balance after the debit and the credit.
C20_Witness ==
    /\ call.op = "advanceStage"
    /\ storage.currentStage = 2 /\ gameStage = 2
    /\ storage.heroes[1].level = 2 /\ hero.level = 2
    /\ storage.resources.gold = Gold(StartingGold) - Gold(100) + Gold(55)
    /\ gold = storage.resources.gold

HeroEvents(log) == {i \in DOMAIN log : log[i].by = "hero"}
EnemyEvents(log) == {i \in DOMAIN log : log[i].by = "enemy"}
Kills(log, evs) == {i \in evs : log[i].after = 0}

\* C27: in every round the hero's attack is resolved before any enemy attack, and only
\* the enemies still alive after it attack: an enemy the hero's attack brought to 0
\* deals no damage in that round (nor does one that was dead before the round).
C27_HeroActsFirst ==
    [][(call'.op = "update" /\ call'.who = "ran" /\ call'.ret = 1)
         => /\ \A i \in HeroEvents(roundLog'), j \in EnemyEvents(roundLog') : i < j
            /\ Cardinality(EnemyEvents(roundLog'))
                 <= Cardinality(AliveIndices(enemies))
                      - Cardinality(Kills(roundLog', HeroEvents(roundLog')))
            /\ Kills(roundLog', EnemyEvents(roundLog')) = {}
                 => Cardinality(EnemyEvents(roundLog'))
                      = Cardinality(AliveIndices(enemies))
                          - Cardinality(Kills(roundLog', HeroEvents(roundLog')))]_vars

\* A round in which the hero killed one of three enemies and exactly the two others hit
\* the hero, who survived.
C27_Witness ==
    /\ call.op = "update" /\ call.who = "ran" /\ call.ret = 1
    /\ Len(roundLog) = 3
    /\ roundLog[1].by = "hero" /\ roundLog[1].after = 0
    /\ roundLog[2].by = "enemy" /\ roundLog[3].by = "enemy"
    /\ roundLog[3].after > 0

\* C28: within a round, once the hero's health has reached 0 no later enemy changes the
\* hero's health or adds an effect entry: every enemy hit of the round lands on a living
\* hero, the hit that brings the hero to 0 is the last event of the round, and the feed
\* grows by exactly one entry per event.
C28_NoAttackOnDeadHero ==
    [][(call'.op = "update" /\ call'.who = "ran")
         => /\ \A i \in EnemyEvents(roundLog') : roundLog'[i].before > 0
            /\ \A i \in Kills(roundLog', EnemyEvents(roundLog')) : i = Len(roundLog')
            /\ \A i \in DOMAIN roundLog' : roundLog'[i].entries = 1
            /\ \E aged \in {updateDamageNumbers(damageNumbers, call'.arg)} :
                 Len(damageNumbers') <= Len(aged) + Len(roundLog')]_vars

\* A round in which the hero killed one of three enemies, the first of the two others
\* brought the hero to 0 and the last one did not attack.
C28_Witness ==
    /\ call.op = "update" /\ call.who = "ran" /\ call.ret = 1
    /\ maxEnemies = 3 /\ battles = 1
    /\ Len(roundLog) = 2
    /\ roundLog[1].by = "hero" /\ roundLog[1].after = 0
    /\ roundLog[2].by = "enemy" /\ roundLog[2].after = 0

\* The snapshot in storage holds the hero level, the stage and the balance of the state,
\* stamped with the current time.
SnapshotOfState(snapshot, h, stage, g, t) ==
    /\ snapshot \notin {NoSave, CorruptSave}
    /\ snapshot.heroes[1].level = h.level
    /\ snapshot.currentStage = stage
    /\ snapshot.resources.gold = g
    /\ snapshot.lastSaveTime = t

C30_CreatedEntriesObservable ==
    [][(call'.op = "update" /\ call'.who = "ran")
         => /\ Len(damageNumbers') >= Len(roundLog')
            /\ \A k \in DOMAIN roundLog' :
                 damageNumbers'[Len(damageNumbers') - Len(roundLog') + k].damage
                    = roundLog'[k].amount]_vars

\* C30 for frames shorter than the lifetime of an entry: the created entries are in the
\* feed when the update returns.
C30_ObservableOnShortFrames ==
    [][(call'.op = "update" /\ call'.who = "ran" /\ call'.arg < MaxLifetime)
         => /\ Len(damageNumbers') >= Len(roundLog')
            /\ \A k \in DOMAIN roundLog' :
                 damageNumbers'[Len(damageNumbers') - Len(roundLog') + k].damage
                    = roundLog'[k].amount]_vars

\* C29: after startBattle(hero, stage) every enemy of the list was constructed for that
\* stage: its type, maxHealth, attack and defense are those of createEnemyForStage(stage)
\* and it is at full health, so no enemy of an earlier stage or battle is in the list.
C29_EnemiesOfTheStartedStage ==
    [][call'.op = "startBattle"
         => \A i \in DOMAIN enemies' :
              LET e == createEnemyForStage(<<>>, call'.arg)
              IN /\ enemies'[i].type = e.type
                 /\ enemies'[i].maxHealth = e.maxHealth
                 /\ enemies'[i].attack = e.attack
                 /\ enemies'[i].defense = e.defense
                 /\ enemies'[i].health = HP(e.maxHealth)]_vars

\* C29 for the first startBattle of a BattleManager, whose list is still empty.
C29_FirstBattleOfTheManager ==
    [][(call'.op = "startBattle" /\ battles = 0)
         => /\ Len(enemies') = maxEnemies'
            /\ \A i \in DOMAIN enemies' :
                 LET e == createEnemyForStage(<<>>, call'.arg)
                 IN /\ enemies'[i].type = e.type
                    /\ enemies'[i].maxHealth = e.maxHealth
                    /\ enemies'[i].attack = e.attack
                    /\ enemies'[i].defense = e.defense
                    /\ enemies'[i].health = HP(e.maxHealth)]_vars

\* The scaled stat of level L + 1 is at least that of level L, for every base, level and
\* percentage compared.
StatsMonotone ==
    \A base \in CheckedBases, level \in 1..MaxLevelChecked, pct \in {8, 10, 15} :
       Stat(base, level + 1, pct) >= Stat(base, level, pct)

\* C25: for fixed non-negative base stats the hero's maxHealth, attack and defense are
\* non-decreasing in level: the scaled stat of level L + 1 is at least that of level L
\* for every base and level compared, and every upgrade of a hero leaves each of the
\* three stats at least as large as before.
C25_StatsMonotoneInLevel ==
    /\ []StatsMonotone
    /\ [][(hero # NoHero /\ hero' # NoHero /\ hero'.level > hero.level)
            => /\ hero'.baseHealth = hero.baseHealth
               /\ hero'.maxHealth >= hero.maxHealth
               /\ hero'.attack >= hero.attack
               /\ hero'.defense >= hero.defense]_vars

\* The starting hero upgraded to level 3, where binary64 leaves defense at 28, one below
\* the exact value and still above the 27 of level 2.
C25_Witness ==
    /\ call.op = "upgradeHero" /\ call.ret = 1
    /\ hero.level = 3 /\ hero.baseDefense = 25
    /\ hero.defense = 28 /\ StatTable[25, 2, 8] = 27
    /\ hero.maxHealth = 650 /\ hero.attack = 36

\* The StatModel value floor(base * (pct / 100)^(stage - 1)) in exact arithmetic, and the
\* enemy type of the stage bands.
StageStatModel(base, pct, stageLevel) ==
    LET v == Trim(DivPow(MulPow(NatLimbs(base), pct, stageLevel - 1), 100, stageLevel - 1))
    IN Limb(v, 1) + Base * Limb(v, 2)
TypeModel(stageLevel) ==
    CASE stageLevel \in 1..2 -> "Goblin"
      [] stageLevel \in 3..5 -> "Orc"
      [] stageLevel \in 6..8 -> "Skeleton"
      [] stageLevel \in 9..12 -> "Demon"
      [] stageLevel >= 13 -> "Dragon"

\* An enemy as the claim describes one spawned at the stage.
SpawnedFor(e, stageLevel) ==
    /\ e.type = TypeModel(stageLevel)
    /\ e.maxHealth = StageStatModel(EnemyBaseHealth, 120, stageLevel)
    /\ e.health = HP(e.maxHealth)
    /\ e.attack = StageStatModel(EnemyBaseAttack, 115, stageLevel)
    /\ e.defense = StageStatModel(EnemyBaseDefense, 110, stageLevel)

\* For every stage compared, each stat is the StatModel value whichever double Math.pow
\* returns, and the type is that of the stage's band.
StageStatsExact ==
    \A stageLevel \in 1..MaxStageSpawned :
       /\ SpawnedFor(createEnemyForStage(<<>>, stageLevel), stageLevel)
       /\ \A bp \in {<<EnemyBaseHealth, 120>>, <<EnemyBaseAttack, 115>>,
                     <<EnemyBaseDefense, 110>>} :
            StageStatResults(bp[1], bp[2], stageLevel)
               = {StageStatModel(bp[1], bp[2], stageLevel)}

C22_OnlyTargetAndVarianceDraws ==
    [][(call'.op = "update" /\ call'.who = "ran" /\ call'.ret = 1 /\ randomStream' # <<>>)
         => /\ Len(randomStream') = 2 * Cardinality(HeroEvents(roundLog'))
                                      + Cardinality(EnemyEvents(roundLog'))
            /\ roundLog' = executeRoundOnStream(
                              [hero |-> hero, enemies |-> enemies, feed |-> damageNumbers,
                               log |-> <<>>, drawn |-> 0], randomStream', FALSE).log]_vars

\* C22 with no adventure log attached.
C22_DrawsWithoutLog ==
    [][(call'.op = "update" /\ call'.who = "ran" /\ call'.ret = 1 /\ randomStream' # <<>>
          /\ ~adventureLog)
         => /\ Len(randomStream') = 2 * Cardinality(HeroEvents(roundLog'))
                                      + Cardinality(EnemyEvents(roundLog'))
            /\ roundLog' = executeRoundOnStream(
                              [hero |-> hero, enemies |-> enemies, feed |-> damageNumbers,
                               log |-> <<>>, drawn |-> 0], randomStream', FALSE).log]_vars

\* C33: from the first startBattle on, currentWave - 1 <= enemiesDefeatedThisStage; an
\* update raises the wave counter only if it removed at least one defeated enemy, and
\* raises the defeat counter by exactly the number of enemies it removed.
C33_WavesBoundedByDefeats ==
    [][/\ battles' > 0 => currentWave' - 1 <= enemiesDefeatedThisStage'
       /\ (call'.op = "update" /\ call'.who = "ran")
            => /\ currentWave' # currentWave => Removed >= 1
               /\ enemiesDefeatedThisStage' - enemiesDefeatedThisStage = Removed
               /\ Len(enemies) - Removed <= Len(enemies')]_vars

\* Two waves were called in by exactly two defeats: each of two updates removed one enemy.
C33_Witness ==
    /\ call.op = "update" /\ call.who = "ran"
    /\ currentWave = 3
    /\ enemiesDefeatedThisStage = 2

\* C32: the ids of the enemies that are in the live list at the same time are pairwise
\* distinct and lie in 0..maxEnemies - 1.
C32_LiveIdsDistinct ==
    \A i, j \in DOMAIN enemies :
        /\ enemies[i].id \in 0..(maxEnemies - 1)
        /\ i # j => enemies[i].id # enemies[j].id

\* C32, the part about insertion: an enemy that an update appends gets the length of the
\* list at that moment as its id.
C32_IdIsLengthAtInsertion ==
    [][(call'.op = "update" /\ call'.who = "ran")
         => \A j \in DOMAIN enemies' :
               j > Len(enemies) - Removed => enemies'[j].id = j - 1]_vars

\* C38: a use of a skill succeeds only when the skill is unlocked and its currentCooldown
\* is <= 0, and then sets it to baseCooldown; an update that runs lowers each cooldown by
\* deltaTime, not below 0, and a short-circuited update leaves it alone; so the cooldown
\* stays within 0..baseCooldown and two successful uses of Fireball are at least
\* baseCooldown ms of update time apart; a rejected use returns false and changes nothing.
C38_SkillCooldowns ==
    [][/\ fireballCooldown' \in 0..FireballCooldown
       /\ cleaveCooldown' \in 0..CleaveCooldown
       /\ (call'.op = "useSkill" /\ call'.who = "fireball" /\ call'.ret = 1)
            => /\ fireballCooldown <= 0
               /\ fireballCooldown' = FireballCooldown
               /\ sinceUse >= FireballCooldown
       /\ (call'.op = "useSkill" /\ call'.who = "cleave" /\ call'.ret = 1)
            => /\ cleaveCooldown <= 0
               /\ Unlocked("cleave")
               /\ cleaveCooldown' = CleaveCooldown
       /\ (call'.op = "useSkill" /\ call'.ret = 0)
            => /\ IF call'.who = "fireball" THEN fireballCooldown > 0
                  ELSE cleaveCooldown > 0 \/ ~Unlocked("cleave")
               /\ UNCHANGED <<hero, battleVars, ledgerVars, fireballCooldown, cleaveCooldown,
                              pendingEffects, sinceUse, elapsed>>
       /\ (call'.op = "update" /\ call'.who = "ran")
            => /\ fireballCooldown' = Max(0, fireballCooldown - call'.arg)
               /\ cleaveCooldown' = Max(0, cleaveCooldown - call'.arg)
       /\ (call'.op = "update" /\ call'.who = "skipped")
            => UNCHANGED <<fireballCooldown, cleaveCooldown>>]_vars

\* Fireball was used, an update of 2500 ms ran, and a second use was rejected with half
\* the cooldown left.
C38_Witness ==
    /\ call.op = "useSkill" /\ call.who = "fireball" /\ call.ret = 0
    /\ fireballCooldown = 2500
    /\ sinceUse = 2500

\* C39: an effect entry that a Cleave callback adds to the feed belongs to a hit of the
\* current battle: no callback scheduled before the last startBattle adds an entry to the
\* feed that startBattle cleared (the callback's battle is the number of startBattle
\* calls made when its Cleave was cast).
C39_NoEffectFromEarlierBattle ==
    [][call'.op = "timeout"
         => /\ call'.arg = battles
            /\ Len(damageNumbers') = Len(damageNumbers) + 1]_vars

\* C39 for the callbacks that run before the next startBattle: each adds one entry with
\* the damage of its hit to the end of the feed.
C39_EffectOfEachHit ==
    [][call'.op = "timeout"
         => /\ Len(damageNumbers') = Len(damageNumbers) + 1
            /\ damageNumbers'[Len(damageNumbers')].lifetime = 0
            /\ ~damageNumbers'[Len(damageNumbers')].isHeal
            /\ damageNumbers'[Len(damageNumbers')].damage
                 = HP(Head(pendingEffects).damage \div HP(1))]_vars

\* C36: passive accrual is independent of how the elapsed time is cut into ticks and
\* loses no fraction: whenever getGold reads the balance after updates whose deltaTimes
\* add up to T ms, it returns the floor of the start balance plus goldPerSecond * T / 1000
\* (goldPerSecond is kept in half gold per second).
C36_AccrualIndependentOfTicks ==
    call.op = "getGold"
        => call.ret = (2000 * StartingGold + goldPerSecond * (now - Epoch)) \div 2000

\* A single update of any modelled length is read back without loss.
C36_OneUpdateReadsExact ==
    [][(call.op = "init" /\ call'.op = "update")
          => getGold(gold') = (2000 * StartingGold + goldPerSecond * (now' - Epoch)) \div 2000]_vars

C37_NoIntervalRewardedTwice ==
    [][/\ (loadGame(storage') # Null /\ savedUntil' > 0)
            => storage'.lastSaveTime >= savedUntil'
       /\ (call'.op = "init" /\ offlineCalls' # <<>>)
            => /\ now - offlineCalls'[1].timeAwayMs = storage.lastSaveTime
               /\ storage.lastSaveTime >= savedUntil
               /\ rewardedUntil' = now
               /\ storage' = storage]_vars

\* A session rewarded on a snapshot that an earlier rewarded session wrote.
C37_Witness ==
    /\ call.op = "init"
    /\ offlineCalls # <<>> /\ offlineCalls[1].gold > 0
    /\ savedUntil > 0
    /\ storage.lastSaveTime >= savedUntil

\* Every round fired lowers the health of a living enemy by at least 1.
RoundHitsAnEnemy ==
    [][(call'.op = "update" /\ call'.ret = 1)
          => \E i \in DOMAIN enemies :
               /\ isAlive(enemies[i])
               /\ roundLog'[1].by = "hero"
               /\ roundLog'[1].before = enemies[i].health
               /\ roundLog'[1].after <= enemies[i].health - HP(1)]_vars

\* C31: no stalemate.  While update keeps being called with deltaTime > 0 on an active,
\* unpaused battle, an enemy is defeated and currentWave increases, wave after wave (up
\* to the wave bound of the model); every round fired lowers the health of a living
\* enemy by at least 1.
C31_NoStalemate ==
    /\ \A w \in 1..(MaxWave - 1), n \in 0..(MaxWave - 1) :
         (isBattleActive /\ ~isPaused /\ currentWave = w /\ enemiesDefeatedThisStage = n)
            ~> (currentWave > w /\ enemiesDefeatedThisStage > n)
    /\ RoundHitsAnEnemy

\* The zero-attack hero has worn down and defeated two enemies, one after the other.
C31_Witness ==
    /\ call.op = "update" /\ call.ret = 1
    /\ hero.attack = 0
    /\ currentWave = 3
    /\ enemiesDefeatedThisStage = 2
    /\ roundLog[1].ret = HP(1)

====
